---- MODULE Spec2Model ----
(***************************************************************************)
(* Vendor-Payee-Verification: the IBAN extraction-and-validation pipeline. *)
(*                                                                         *)
(* The model covers the IBAN validator, the data validator, the pattern    *)
(* store (PatternRecognizer over DatabaseManager), the single-invoice      *)
(* pipeline (InvoiceProcessor.process_invoice) and the batch orchestrator  *)
(* (BatchProcessor).  Strings are sequences of one-character strings;      *)
(* confidence scores are integers in hundredths (0.70 is 70).              *)
(***************************************************************************)
EXTENDS Integers, Sequences, FiniteSets, TLC

(***************************************************************************)
(* Bounds of the model                                                     *)
(***************************************************************************)
\* calls made to the pattern store in one behaviour of SpecStore
MaxStoreCalls == 3
\* invocations of process_invoice in one behaviour of SpecPipeline
MaxInvocations == 2
\* threads that run process_invoice at the same time (settings.MAX_WORKERS)
MaxWorkers == 2

(***************************************************************************)
(* Program constants (config/settings.py), confidence in hundredths        *)
(***************************************************************************)
MIN_CONFIDENCE_THRESHOLD == 70
MAX_CONFIDENCE_THRESHOLD == 90
MAX_FILE_SIZE_MB == 10
SUPPORTED_FORMATS == { <<"p", "d", "f">>, <<"j", "p", "g">>, <<"j", "p", "e", "g">>,
                       <<"p", "n", "g">>, <<"t", "i", "f", "f">> }
\* validate(): "Length check (min 15, max 34)"
IbanMinLen == 15
IbanMaxLen == 34
\* the value Python's None takes where an integer key is expected
NoId == 0
\* usage_count of a freshly inserted pattern row (column default; the INSERT
\* of insert_pattern does not name the column)
DefaultUsageCount == 0
\* a confidence the AI reported as JSON null (not a number)
ConfNull == -1

(***************************************************************************)
(* Optional values: None is the empty tuple, Some(x) the one-element tuple *)
(***************************************************************************)
None == <<>>
Some(x) == <<x>>
IsNone(o) == Len(o) = 0
Get(o) == o[1]

(***************************************************************************)
(* Characters and strings                                                  *)
(***************************************************************************)
UpperLetters == <<"A", "B", "C", "D", "E", "F", "G", "H", "I", "J", "K", "L", "M",
                  "N", "O", "P", "Q", "R", "S", "T", "U", "V", "W", "X", "Y", "Z">>
LowerLetters == <<"a", "b", "c", "d", "e", "f", "g", "h", "i", "j", "k", "l", "m",
                  "n", "o", "p", "q", "r", "s", "t", "u", "v", "w", "x", "y", "z">>
DigitChars == <<"0", "1", "2", "3", "4", "5", "6", "7", "8", "9">>
WhitespaceChars == {" ", "\t", "\n"}

IsUpper(c) == \E i \in 1..26 : UpperLetters[i] = c
IsLower(c) == \E i \in 1..26 : LowerLetters[i] = c
IsDigit(c) == \E i \in 1..10 : DigitChars[i] = c
IsAlnum(c) == IsUpper(c) \/ IsLower(c) \/ IsDigit(c)
DigitValue(c) == (CHOOSE i \in 1..10 : DigitChars[i] = c) - 1
\* str.upper() and str.lower() on one character
UpperChar(c) == IF IsLower(c) THEN UpperLetters[CHOOSE i \in 1..26 : LowerLetters[i] = c] ELSE c
LowerChar(c) == IF IsUpper(c) THEN LowerLetters[CHOOSE i \in 1..26 : UpperLetters[i] = c] ELSE c
Upper(s) == [i \in 1..Len(s) |-> UpperChar(s[i])]
Lower(s) == [i \in 1..Len(s) |-> LowerChar(s[i])]

\* re.sub(r'\s+', '', s)
RECURSIVE RemoveWhitespace(_)
RemoveWhitespace(s) ==
    IF s = <<>> THEN <<>>
    ELSE IF Head(s) \in WhitespaceChars THEN RemoveWhitespace(Tail(s))
    ELSE <<Head(s)>> \o RemoveWhitespace(Tail(s))

\* str.strip()
RECURSIVE LStrip(_)
LStrip(s) == IF s # <<>> /\ Head(s) \in WhitespaceChars THEN LStrip(Tail(s)) ELSE s
RECURSIVE RStrip(_)
RStrip(s) == IF s # <<>> /\ s[Len(s)] \in WhitespaceChars THEN RStrip(SubSeq(s, 1, Len(s) - 1)) ELSE s
Strip(s) == RStrip(LStrip(s))

\* "sub in s" for Python strings
Contains(s, sub) ==
    \E i \in 1..(Len(s) - Len(sub) + 1) : SubSeq(s, i, i + Len(sub) - 1) = sub

\* the position of the first / last occurrence of c in s, 0 when there is none
FirstIndex(s, c) == IF \E i \in 1..Len(s) : s[i] = c
                    THEN CHOOSE i \in 1..Len(s) : s[i] = c /\ \A j \in 1..(i - 1) : s[j] # c
                    ELSE 0
LastIndex(s, c) == IF \E i \in 1..Len(s) : s[i] = c
                   THEN CHOOSE i \in 1..Len(s) : s[i] = c /\ \A j \in (i + 1)..Len(s) : s[j] # c
                   ELSE 0

(***************************************************************************)
(* IBAN validator (src/validators/iban_validator.py)                       *)
(***************************************************************************)
\* re.match(r'^[A-Z]{2}[0-9]{2}[A-Z0-9]+$', s)
MatchesIbanFormat(s) ==
    /\ Len(s) >= 5
    /\ IsUpper(s[1]) /\ IsUpper(s[2])
    /\ IsDigit(s[3]) /\ IsDigit(s[4])
    /\ \A i \in 5..Len(s) : IsUpper(s[i]) \/ IsDigit(s[i])

\* ISO 13616: letters count A=10 .. Z=35; the decimal number is reduced
\* modulo 97 while it is read, digit by digit
CharValue(c) == IF IsDigit(c) THEN DigitValue(c)
                ELSE (CHOOSE i \in 1..26 : UpperLetters[i] = c) + 9
RECURSIVE Mod97From(_, _)
Mod97From(acc, s) ==
    IF s = <<>> THEN acc
    ELSE LET v == CharValue(Head(s))
         IN  Mod97From(IF v >= 10 THEN (acc * 100 + v) % 97 ELSE (acc * 10 + v) % 97, Tail(s))
Mod97(s) == Mod97From(0, SubSeq(s, 5, Len(s)) \o SubSeq(s, 1, 4))

\* The schwifty registry entries the model uses: total length and the shape
\* of the BBAN (letters, then digits).
IbanRegistry == [ IE |-> [len |-> 22, letters |-> 4, digits |-> 14],
                  GB |-> [len |-> 22, letters |-> 4, digits |-> 14],
                  DE |-> [len |-> 22, letters |-> 0, digits |-> 18],
                  AT |-> [len |-> 20, letters |-> 0, digits |-> 16] ]
CountryKey(s) == IF SubSeq(s, 1, 2) = <<"I", "E">> THEN "IE"
                 ELSE IF SubSeq(s, 1, 2) = <<"G", "B">> THEN "GB"
                 ELSE IF SubSeq(s, 1, 2) = <<"D", "E">> THEN "DE"
                 ELSE IF SubSeq(s, 1, 2) = <<"A", "T">> THEN "AT"
                 ELSE "??"
\* schwifty.IBAN(s): "" when the object is built, else the exception raised
SchwiftyError(s) ==
    IF CountryKey(s) = "??" THEN "Invalid IBAN: unknown country-code"
    ELSE LET spec == IbanRegistry[CountryKey(s)]
         IN  IF Len(s) # spec.len THEN "Invalid IBAN: invalid length"
             ELSE IF ~ ( /\ \A i \in 5..(4 + spec.letters) : IsUpper(s[i])
                         /\ \A i \in (5 + spec.letters)..Len(s) : IsDigit(s[i]) )
                  THEN "Invalid IBAN: invalid BBAN structure"
             ELSE IF Mod97(s) # 1 THEN "Invalid IBAN: invalid checksum digits"
             ELSE ""

\* settings.IBAN_COUNTRY_CODES
IBAN_COUNTRY_CODES == { <<"I", "E">>, <<"G", "B">>, <<"D", "E">>, <<"F", "R">>,
                        <<"E", "S">>, <<"I", "T">>, <<"N", "L">>, <<"B", "E">> }

\* lines 49-51: the country prefix is outside the allow-list, which is logged
\* as a warning and has no other effect
country_warning(iban_clean) == SubSeq(iban_clean, 1, 2) \notin IBAN_COUNTRY_CODES

\* IBANValidator.validate: (is_valid, formatted_iban, error_message)
validate(iban) ==
    IF IsNone(iban) \/ Get(iban) = <<>>
    THEN [is_valid |-> FALSE, formatted |-> None, error |-> "IBAN is empty"]
    ELSE LET iban_clean == Upper(RemoveWhitespace(Get(iban)))
         IN  IF ~ MatchesIbanFormat(iban_clean)
             THEN [is_valid |-> FALSE, formatted |-> None, error |-> "Invalid IBAN format"]
             ELSE IF Len(iban_clean) < IbanMinLen \/ Len(iban_clean) > IbanMaxLen
             THEN [is_valid |-> FALSE, formatted |-> None, error |-> "Invalid IBAN length"]
             ELSE IF SchwiftyError(iban_clean) # ""
             THEN [is_valid |-> FALSE, formatted |-> None, error |-> SchwiftyError(iban_clean)]
             ELSE [is_valid |-> TRUE, formatted |-> Some(iban_clean), error |-> ""]

\* [iban_clean[i:i+group_size] for i in range(0, len(iban_clean), group_size)]
\* joined by the separator, for group_size > 0
RECURSIVE JoinGroups(_, _, _)
JoinGroups(iban_clean, separator, group_size) ==
    IF Len(iban_clean) <= group_size THEN iban_clean
    ELSE SubSeq(iban_clean, 1, group_size) \o separator
         \o JoinGroups(SubSeq(iban_clean, group_size + 1, Len(iban_clean)),
                       separator, group_size)

\* IBANValidator.format_iban: range() raises ValueError for a step of 0 and
\* is empty for a negative step
format_iban(iban, separator, group_size) ==
    LET iban_clean == Upper(RemoveWhitespace(iban))
    IN  IF group_size = 0 THEN [raised |-> TRUE, value |-> <<>>]
        ELSE IF group_size < 0 THEN [raised |-> FALSE, value |-> <<>>]
        ELSE [raised |-> FALSE, value |-> JoinGroups(iban_clean, separator, group_size)]

(***************************************************************************)
(* Data validator (src/validators/data_validator.py)                       *)
(***************************************************************************)
validate_account_name(account_name) ==
    IF IsNone(account_name) \/ Strip(Get(account_name)) = <<>> THEN FALSE
    ELSE IF Len(Strip(Get(account_name))) < 2 THEN FALSE
    ELSE \E i \in 1..Len(Get(account_name)) : IsAlnum(Get(account_name)[i])

\* variant of validate_confidence_score without the upper end of the range
validate_confidence_score_NoUpperEnd(score) ==
    MIN_CONFIDENCE_THRESHOLD <= score

\* variant of validate_confidence_score without the lower end of the range
validate_confidence_score_NoLowerEnd(score) ==
    score <= 100

\* min_confidence <= score <= 1.0
validate_confidence_score(score) ==
    MIN_CONFIDENCE_THRESHOLD <= score /\ score <= 100

\* variant of get_confidence_level whose upper bucket excludes its boundary
get_confidence_level_ExclusiveHigh(score) ==
    IF score > MAX_CONFIDENCE_THRESHOLD THEN "high"
    ELSE IF score >= MIN_CONFIDENCE_THRESHOLD THEN "medium"
    ELSE "low"

get_confidence_level(score) ==
    IF score >= MAX_CONFIDENCE_THRESHOLD THEN "high"
    ELSE IF score >= MIN_CONFIDENCE_THRESHOLD THEN "medium"
    ELSE "low"

\* the error list of validate_extraction, in the order the checks are made
validate_extraction_errors(vendor_id, iban, account_name, confidence_score) ==
    (IF Strip(vendor_id) = <<>> THEN <<"Vendor ID is empty">> ELSE <<>>)
    \o (IF ~ validate(iban).is_valid THEN <<"IBAN validation failed">> ELSE <<>>)
    \o (IF ~ validate_account_name(account_name)
        THEN <<"Account name is invalid or empty">> ELSE <<>>)
    \o (IF ~ validate_confidence_score(confidence_score)
        THEN <<"Confidence score is below threshold">> ELSE <<>>)

\* variant of validate_extraction that does not look at the vendor id
validate_extraction_VendorUnchecked(vendor_id, iban, account_name, confidence_score) ==
    LET errors == validate_extraction_errors(<<"v">>, iban, account_name, confidence_score)
    IN  [is_valid |-> Len(errors) = 0, errors |-> errors]

validate_extraction(vendor_id, iban, account_name, confidence_score) ==
    LET errors == validate_extraction_errors(vendor_id, iban, account_name, confidence_score)
    IN  [is_valid |-> Len(errors) = 0, errors |-> errors]

\* dict.get(key, default)
GetOr(dict, key, default) == IF key \in DOMAIN dict THEN dict[key] ELSE default

\* variant of validate_batch_consistency that reads the confidence under the
\* key of the pipeline's results
validate_batch_consistency_ConfidenceKey(extractions) ==
    LET Checked(extraction) ==
            validate_extraction(GetOr(extraction, "vendor_id", <<>>),
                                Some(GetOr(extraction, "iban", <<>>)),
                                Some(GetOr(extraction, "account_name", <<>>)),
                                GetOr(extraction, "confidence", 0))
        WithErrors(extraction) ==
            [validation_errors |-> Checked(extraction).errors] @@ extraction
        Marked == [i \in 1..Len(extractions) |-> WithErrors(extractions[i])]
    IN  [valid |-> SelectSeq(extractions, LAMBDA e : Checked(e).is_valid),
         invalid |-> SelectSeq(Marked, LAMBDA e : e.validation_errors # <<>>)]

\* validate_batch_consistency: an extraction that fails is given the key
\* validation_errors and goes to the invalid list
validate_batch_consistency(extractions) ==
    LET Checked(extraction) ==
            validate_extraction(GetOr(extraction, "vendor_id", <<>>),
                                Some(GetOr(extraction, "iban", <<>>)),
                                Some(GetOr(extraction, "account_name", <<>>)),
                                GetOr(extraction, "confidence_score", 0))
        WithErrors(extraction) ==
            [validation_errors |-> Checked(extraction).errors] @@ extraction
        Marked == [i \in 1..Len(extractions) |-> WithErrors(extractions[i])]
    IN  [valid |-> SelectSeq(extractions, LAMBDA e : Checked(e).is_valid),
         invalid |-> SelectSeq(Marked, LAMBDA e : e.validation_errors # <<>>)]

\* s.replace(' ', '')
RECURSIVE RemoveSpaces(_)
RemoveSpaces(s) ==
    IF s = <<>> THEN <<>>
    ELSE IF Head(s) = " " THEN RemoveSpaces(Tail(s))
    ELSE <<Head(s)>> \o RemoveSpaces(Tail(s))

\* s[:2]
Prefix2(s) == SubSeq(s, 1, IF Len(s) < 2 THEN Len(s) ELSE 2)

\* validate_pattern_change: the returned tuple (should_alert, alert_message);
\* log_level is the level of the logger call the branch makes, which is not
\* returned.  The message is "<vendor_id>: <previous>*** -> <new>***" after
\* its fixed opening words.
validate_pattern_change(vendor_id, new_iban, previous_iban) ==
    IF IsNone(previous_iban) \/ Get(previous_iban) = <<>>
    THEN [should_alert |-> FALSE, alert_message |-> None, log_level |-> "none"]
    ELSE LET new_iban_clean == Upper(RemoveSpaces(new_iban))
             previous_iban_clean == Upper(RemoveSpaces(Get(previous_iban)))
             new_country == Prefix2(new_iban_clean)
             previous_country == Prefix2(previous_iban_clean)
             alert_msg == vendor_id \o <<":", " ">> \o previous_country
                          \o <<"*", "*", "*", " ", "-", ">", " ">> \o new_country
                          \o <<"*", "*", "*">>
         IN  IF new_iban_clean # previous_iban_clean
             THEN [should_alert |-> TRUE, alert_message |-> Some(alert_msg),
                   log_level |-> IF new_country # previous_country
                                 THEN "critical" ELSE "warning"]
             ELSE [should_alert |-> FALSE, alert_message |-> None, log_level |-> "none"]

(***************************************************************************)
(* AI pattern payloads and their canonical hash                            *)
(***************************************************************************)
\* The payloads analyze_invoice_pattern can return.  A section is named by
\* its location; "" is a payload without that section (the fallback payload
\* of _parse_pattern_response has none).
Payloads == << [layout_type |-> "standard", iban_section |-> "footer",
                account_section |-> "footer", confidence |-> 95],
               [layout_type |-> "complex", iban_section |-> "header",
                account_section |-> "sidebar", confidence |-> 80],
               [layout_type |-> "unknown", iban_section |-> "",
                account_section |-> "", confidence |-> 50] >>
PayloadSet == {Payloads[i] : i \in 1..Len(Payloads)}

\* security_manager.hash_pattern(json.dumps(pattern_data, sort_keys=True)):
\* a digest of the canonical serialization, equal exactly for equal payloads
hash_pattern(pattern_data) == CHOOSE i \in 1..Len(Payloads) : Payloads[i] = pattern_data

\* PatternRecognizer._generate_layout_description
_generate_layout_description(pattern_data) ==
    << pattern_data.layout_type,
       IF pattern_data.iban_section = "" THEN "unknown" ELSE pattern_data.iban_section,
       IF pattern_data.account_section = "" THEN "unknown" ELSE pattern_data.account_section >>

(***************************************************************************)
(* Persistence (database/db_manager.py).  A table is the sequence of its   *)
(* rows in insertion order; the key of row i is i (AUTOINCREMENT/SERIAL).  *)
(* Every operation opens its own connection and turns any database error   *)
(* into its default return value; dbOk says whether the operation worked.  *)
(***************************************************************************)
\* get_connection, on the number of connections the calling thread holds:
\* connect (lines 31-41), and close in the finally clause (lines 48-50)
ConnOpen(open) == open + 1

\* variant of ConnClose that leaves the connection open
ConnClose_Leaks(open) == open

ConnClose(open) == open - 1

\* "with self.get_connection() as conn:" around one operation
get_connection(open) == ConnClose(ConnOpen(open))

\* ORDER BY usage_count DESC, confidence_score DESC
OrderedBefore(a, b) ==
    \/ a.usage_count > b.usage_count
    \/ a.usage_count = b.usage_count /\ a.confidence_score >= b.confidence_score

VendorPatternIds(tbl, vendor_id) == {i \in 1..Len(tbl) : tbl[i].vendor_id = vendor_id}

\* get_vendor_patterns: the lists the SELECT can return (rows that tie in the
\* ORDER BY come in any order); the empty list on a database error
get_vendor_patterns(tbl, vendor_id, dbOk) ==
    IF ~ dbOk THEN { <<>> }
    ELSE LET ids == VendorPatternIds(tbl, vendor_id)
             n == Cardinality(ids)
         IN  { [k \in 1..n |-> tbl[f[k]]] :
                 f \in { g \in [1..n -> ids] :
                           /\ \A i, j \in 1..n : i # j => g[i] # g[j]
                           /\ \A i, j \in 1..n : i < j => OrderedBefore(tbl[g[i]], tbl[g[j]]) } }

\* insert_pattern: the new table and the returned pattern_id (None on error)
insert_pattern(tbl, vendor_id, pattern_hash, layout_description, iban_location, account_name_location, confidence_score, dbOk) ==
    IF ~ dbOk THEN [table |-> tbl, pattern_id |-> NoId]
    ELSE [table |-> Append(tbl, [pattern_id |-> Len(tbl) + 1,
                                 vendor_id |-> vendor_id,
                                 pattern_hash |-> pattern_hash,
                                 layout_description |-> layout_description,
                                 iban_location |-> iban_location,
                                 account_name_location |-> account_name_location,
                                 confidence_score |-> confidence_score,
                                 usage_count |-> DefaultUsageCount]),
          pattern_id |-> Len(tbl) + 1]

\* variant of insert_extraction that writes the row twice
insert_extraction_Twice(tbl, vendor_id, pattern_id, invoice_filename, iban, account_name, confidence_score, dbOk) ==
    IF ~ dbOk THEN [table |-> tbl, extraction_id |-> NoId]
    ELSE LET row(n) == [extraction_id |-> n, vendor_id |-> vendor_id,
                        pattern_id |-> pattern_id,
                        invoice_filename |-> invoice_filename, iban |-> iban,
                        account_name |-> account_name,
                        confidence_score |-> confidence_score]
         IN  [table |-> tbl \o <<row(Len(tbl) + 1), row(Len(tbl) + 2)>>,
              extraction_id |-> Len(tbl) + 2]

\* insert_extraction: the new table and the returned extraction_id (None on error)
insert_extraction(tbl, vendor_id, pattern_id, invoice_filename, iban, account_name, confidence_score, dbOk) ==
    IF ~ dbOk THEN [table |-> tbl, extraction_id |-> NoId]
    ELSE [table |-> Append(tbl, [extraction_id |-> Len(tbl) + 1,
                                 vendor_id |-> vendor_id,
                                 pattern_id |-> pattern_id,
                                 invoice_filename |-> invoice_filename,
                                 iban |-> iban,
                                 account_name |-> account_name,
                                 confidence_score |-> confidence_score]),
          extraction_id |-> Len(tbl) + 1]

\* insert_alert: the new table and the returned alert_id (None on error).  No
\* statement of the program calls it.
insert_alert(tbl, alert_type, severity, vendor_id, extraction_id, alert_message, dbOk) ==
    IF ~ dbOk THEN [table |-> tbl, alert_id |-> NoId]
    ELSE [table |-> Append(tbl, [alert_id |-> Len(tbl) + 1,
                                 alert_type |-> alert_type,
                                 severity |-> severity,
                                 vendor_id |-> vendor_id,
                                 extraction_id |-> extraction_id,
                                 alert_message |-> alert_message]),
          alert_id |-> Len(tbl) + 1]

(***************************************************************************)
(* Pattern store (src/ai_processor/pattern_recognizer.py)                  *)
(***************************************************************************)
\* store_pattern, lines 45-48: the id of the first listed pattern with this
\* hash, None when there is none
FindExisting(existing_patterns, pattern_hash) ==
    IF \E i \in 1..Len(existing_patterns) : existing_patterns[i].pattern_hash = pattern_hash
    THEN existing_patterns[CHOOSE i \in 1..Len(existing_patterns) :
                             /\ existing_patterns[i].pattern_hash = pattern_hash
                             /\ \A j \in 1..(i - 1) :
                                  existing_patterns[j].pattern_hash # pattern_hash].pattern_id
    ELSE NoId

\* the cache entry store_pattern writes: the AI payload itself, which has no
\* 'pattern_id' and no 'iban_location' key
PayloadEntry(pattern_data) ==
    [kind |-> "payload", pattern_id |-> NoId, pattern_hash |-> hash_pattern(pattern_data),
     layout_type |-> <<pattern_data.layout_type>>, iban_location |-> "unknown",
     confidence |-> pattern_data.confidence]

\* the cache entry get_pattern builds from the first listed row
RowEntry(best_pattern) ==
    [kind |-> "row", pattern_id |-> best_pattern.pattern_id,
     pattern_hash |-> best_pattern.pattern_hash,
     layout_type |-> best_pattern.layout_description,
     iban_location |-> best_pattern.iban_location,
     confidence |-> best_pattern.confidence_score]

\* patterns_cache[vendor_id] = entry
CachePut(cache, vendor_id, entry) ==
    [v \in DOMAIN cache \cup {vendor_id} |-> IF v = vendor_id THEN entry ELSE cache[v]]

\* store_pattern after the scan found nothing (lines 50-72)
store_pattern_insert(tbl, cache, vendor_id, pattern_data, confidence_score, dbOk) ==
    LET ins == insert_pattern(tbl, vendor_id, hash_pattern(pattern_data),
                              _generate_layout_description(pattern_data),
                              pattern_data.iban_section, pattern_data.account_section,
                              confidence_score, dbOk)
    IN  [table |-> ins.table,
         cache |-> IF ins.pattern_id # NoId
                   THEN CachePut(cache, vendor_id, PayloadEntry(pattern_data))
                   ELSE cache,
         pattern_id |-> ins.pattern_id]

\* store_pattern as one call, given the list its query returned
store_pattern(tbl, cache, vendor_id, pattern_data, confidence_score, existing_patterns, dbOk) ==
    IF FindExisting(existing_patterns, hash_pattern(pattern_data)) # NoId
    THEN [table |-> tbl, cache |-> cache,
          pattern_id |-> FindExisting(existing_patterns, hash_pattern(pattern_data))]
    ELSE store_pattern_insert(tbl, cache, vendor_id, pattern_data, confidence_score, dbOk)

\* get_pattern, given the list its query returns on a cache miss: the
\* returned pattern (None when there is none) and the new cache
get_pattern(cache, vendor_id, patterns_list) ==
    IF vendor_id \in DOMAIN cache
    THEN [pattern |-> Some(cache[vendor_id]), cache |-> cache]
    ELSE IF Len(patterns_list) = 0
    THEN [pattern |-> None, cache |-> cache]
    ELSE [pattern |-> Some(RowEntry(patterns_list[1])),
          cache |-> CachePut(cache, vendor_id, RowEntry(patterns_list[1]))]

(***************************************************************************)
(* State                                                                   *)
(***************************************************************************)
VARIABLES
    patterns,        \* table invoice_patterns
    extractions,     \* table extractions
    patterns_cache,  \* PatternRecognizer.patterns_cache: vendor_id -> entry
    pattern_files,   \* settings.PATTERNS_DIR: vendor_id -> hash of the payload saved
    ret,             \* the last direct call to the pattern store and its return
    calls,           \* direct calls made to the pattern store so far
    tasks,           \* the invocations of process_invoice, in order of invocation
    batch,           \* the batch call of this process (BatchProcessor)
    alerts           \* table alerts

vars == <<patterns, extractions, patterns_cache, pattern_files, ret, calls, tasks, batch,
          alerts>>

\* vendor ids
V1 == <<"v", "1">>
V2 == <<"v", "2">>
StoreVendors == {V1, V2}
\* confidence scores a caller of store_pattern passes
StoreConfidences == {80, 95}

NoCall == [op |-> "none", vendor_id |-> <<>>, pattern_hash |-> 0, pattern_id |-> NoId,
           pattern |-> None, existed |-> NoId]

\* no batch call has been made.  handed[t] is the position in invoice_files of
\* the file handed to invocation t; collected holds the invocations whose
\* result was appended to results.
NoBatch ==
    [mode |-> "none", pc |-> "idle", directory |-> None, vendor_mapping |-> <<>>,
     invoice_files |-> <<>>, next |-> 1, handed |-> <<>>, collected |-> {},
     results |-> <<>>, summary |-> None,
     export_calls |-> 0,     \* calls made to the CSV generator
     csv_rows |-> <<>>,      \* the data rows of the CSV file written
     report_rows |-> <<>>]   \* the data rows of the validation report written

\* the state after DatabaseManager() on an empty database and
\* PatternRecognizer(db_manager)
InitStore ==
    /\ batch = NoBatch
    /\ alerts = <<>>
    /\ patterns = <<>>
    /\ extractions = <<>>
    /\ patterns_cache = <<>>
    /\ pattern_files = <<>>
    /\ ret = NoCall
    /\ calls = 0
    /\ tasks = <<>>

(***************************************************************************)
(* The pattern store called directly, one call at a time                   *)
(***************************************************************************)
\* the id of a persisted pattern of the vendor with this hash, None if none
PersistedWithHash(tbl, vendor_id, pattern_hash) ==
    IF \E i \in 1..Len(tbl) : tbl[i].vendor_id = vendor_id /\ tbl[i].pattern_hash = pattern_hash
    THEN CHOOSE i \in 1..Len(tbl) : tbl[i].vendor_id = vendor_id /\ tbl[i].pattern_hash = pattern_hash
    ELSE NoId

\* PatternRecognizer.store_pattern(vendor_id, pattern_data, confidence_score)
StorePattern(vendor_id, pattern_data, confidence_score) ==
    /\ calls < MaxStoreCalls
    /\ \E scanOk, insertOk \in BOOLEAN :
         \E existing_patterns \in get_vendor_patterns(patterns, vendor_id, scanOk) :
            LET r == store_pattern(patterns, patterns_cache, vendor_id, pattern_data,
                                   confidence_score, existing_patterns, insertOk)
            IN  /\ patterns' = r.table
                /\ patterns_cache' = r.cache
                /\ ret' = [op |-> "store", vendor_id |-> vendor_id,
                           pattern_hash |-> hash_pattern(pattern_data),
                           pattern_id |-> r.pattern_id, pattern |-> None,
                           existed |-> PersistedWithHash(patterns, vendor_id,
                                                         hash_pattern(pattern_data))]
    /\ calls' = calls + 1
    /\ UNCHANGED <<alerts, batch, extractions, pattern_files, tasks>>

\* PatternRecognizer.get_pattern(vendor_id)
GetPattern(vendor_id) ==
    /\ calls < MaxStoreCalls
    /\ \E readOk \in BOOLEAN :
         \E patterns_list \in get_vendor_patterns(patterns, vendor_id, readOk) :
            LET r == get_pattern(patterns_cache, vendor_id, patterns_list)
            IN  /\ patterns_cache' = r.cache
                /\ ret' = [op |-> "get", vendor_id |-> vendor_id, pattern_hash |-> 0,
                           pattern_id |-> NoId, pattern |-> r.pattern, existed |-> NoId]
    /\ calls' = calls + 1
    /\ UNCHANGED <<alerts, batch, patterns, extractions, pattern_files, tasks>>

\* PatternRecognizer.__init__: a new recognizer over the same database (every
\* batch run builds its own BatchProcessor, InvoiceProcessor and recognizer)
NewRecognizer ==
    /\ calls < MaxStoreCalls
    /\ patterns_cache # <<>>
    /\ patterns_cache' = <<>>
    /\ ret' = NoCall
    /\ UNCHANGED <<alerts, batch, patterns, extractions, pattern_files, calls, tasks>>

NextStore ==
    \/ \E v \in StoreVendors, p \in PayloadSet, c \in StoreConfidences : StorePattern(v, p, c)
    \/ \E v \in StoreVendors : GetPattern(v)
    \/ NewRecognizer

SpecStore == InitStore /\ [][NextStore]_vars

(***************************************************************************)
(* Invoice files and the AI extraction collaborator                        *)
(***************************************************************************)
\* filename.lower().split('.')[-1]
Extension(filename) ==
    SubSeq(Lower(filename), LastIndex(Lower(filename), ".") + 1, Len(filename))

\* security_manager.validate_file_size / validate_file_type
validate_file_size(file) == file.size_mb <= MAX_FILE_SIZE_MB

\* variant of validate_file_type that accepts every extension
validate_file_type_AnyExtension(filename) == Len(filename) >= 0

validate_file_type(filename) == Extension(filename) \in SUPPORTED_FORMATS

IbanGood == <<"I", "E", "2", "9", "A", "I", "B", "K", "9", "3", "1", "1", "5", "2",
              "1", "2", "3", "4", "5", "6", "7", "8">>
IbanBadChecksum == <<"I", "E", "0", "0", "A", "I", "B", "K", "9", "3", "1", "1", "5", "2",
                     "1", "2", "3", "4", "5", "6", "7", "8">>
\* a valid IBAN of another account
IbanGB == <<"G", "B", "8", "2", "W", "E", "S", "T", "1", "2", "3", "4", "5", "6", "9", "8", "7", "6", "5", "4", "3", "2">>
IbanTabbed == SubSeq(IbanGood, 1, 4) \o <<"\t">> \o SubSeq(IbanGood, 5, Len(IbanGood))
IbanBadFormat == <<"I", "N", "V", "A", "L", "I", "D", "1", "2", "3">>
IbanTooShort == <<"I", "E", "1", "2", "3", "4", "5">>
AccountName == <<"A", "c", "m", "e">>

\* What extract_iban_and_account can return (after _parse_extraction_response):
\* a good extraction, the four kinds of IBAN failure, a low confidence, a
\* confidence above 1.0 (the JSON number is returned as the AI wrote it), the
\* null-field result of a response without JSON, a JSON null confidence, an
\* IBAN that holds a tab (the parser removes only spaces), and an account
\* name of one letter and a space.
ExtractionOutcomes ==
    { [iban |-> Some(IbanGood), account_name |-> Some(AccountName), confidence |-> 95],
      [iban |-> Some(IbanBadChecksum), account_name |-> Some(AccountName), confidence |-> 95],
      [iban |-> Some(IbanBadFormat), account_name |-> Some(AccountName), confidence |-> 95],
      [iban |-> Some(IbanTooShort), account_name |-> Some(AccountName), confidence |-> 95],
      [iban |-> Some(<<>>), account_name |-> Some(AccountName), confidence |-> 95],
      [iban |-> Some(IbanGood), account_name |-> Some(AccountName), confidence |-> 50],
      [iban |-> Some(IbanGood), account_name |-> Some(AccountName), confidence |-> 150],
      [iban |-> Some(IbanTabbed), account_name |-> Some(AccountName), confidence |-> 95],
      [iban |-> Some(IbanGood), account_name |-> Some(<<"A", " ">>), confidence |-> 95],
      [iban |-> None, account_name |-> None, confidence |-> 0],
      [iban |-> Some(IbanGood), account_name |-> Some(AccountName), confidence |-> ConfNull] }

(***************************************************************************)
(* The text of an AI response and its parsing                               *)
(* (src/ai_processor/anthropic_client.py).  A response is a sequence of     *)
(* pieces: "p" is prose without braces, "{" and "}" are braces, and "M" is  *)
(* the text of the members                                                  *)
(*   "iban": "ie29 aibk93115212345678", "account_name": "Acme",             *)
(*   "confidence": 0.95                                                     *)
(***************************************************************************)
ResponsePieces == {"p", "{", "}", "M"}

ResponseMembers ==
    [iban |-> Some(SubSeq(Lower(IbanGood), 1, 4) \o <<" ">>
                   \o SubSeq(Lower(IbanGood), 5, Len(IbanGood))),
     account_name |-> Some(AccountName), confidence |-> 95]

\* json.loads(json_str): the dictionary, or a JSONDecodeError
json_loads(json_str) ==
    IF json_str = <<"{", "M", "}">> THEN [raised |-> FALSE, data |-> ResponseMembers]
    ELSE IF json_str = <<"{", "}">> THEN [raised |-> FALSE, data |-> <<>>]
    ELSE [raised |-> TRUE, data |-> <<>>]

\* the dictionary returned when no JSON is found or it does not parse (its
\* notes and raw_response are left out)
NullFields == [iban |-> None, account_name |-> None, confidence |-> 0]

\* variant of _parse_extraction_response that answers a failed parse with the
\* default confidence of _parse_pattern_response
_parse_extraction_response_PatternDefault(response) ==
    LET json_start == FirstIndex(response, "{")
        json_end == LastIndex(response, "}")
    IN  IF json_start # 0 /\ json_end > json_start
        THEN LET loaded == json_loads(SubSeq(response, json_start, json_end))
                 data == loaded.data
             IN  IF loaded.raised THEN [NullFields EXCEPT !.confidence = 50]
                 ELSE IF "iban" \in DOMAIN data /\ ~ IsNone(data.iban) /\ Get(data.iban) # <<>>
                 THEN [data EXCEPT !.iban = Some(Upper(RemoveSpaces(Get(@))))]
                 ELSE data
        ELSE [NullFields EXCEPT !.confidence = 50]

\* AnthropicClient._parse_extraction_response(response)
_parse_extraction_response(response) ==
    LET json_start == FirstIndex(response, "{")
        json_end == LastIndex(response, "}")
    IN  IF json_start # 0 /\ json_end > json_start
        THEN LET loaded == json_loads(SubSeq(response, json_start, json_end))
                 data == loaded.data
             IN  IF loaded.raised THEN NullFields
                 ELSE IF "iban" \in DOMAIN data /\ ~ IsNone(data.iban) /\ Get(data.iban) # <<>>
                 THEN [data EXCEPT !.iban = Some(Upper(RemoveSpaces(Get(@))))]
                 ELSE data
        ELSE NullFields

\* what extract_iban_and_account returns for a document: the dictionary
\* parsed from the response, read with the defaults of extraction_result.get
Extracted(content) ==
    IF "response" \in DOMAIN content
    THEN LET data == _parse_extraction_response(content.response)
         IN  [iban |-> IF "iban" \in DOMAIN data THEN data.iban ELSE Some(<<>>),
              account_name |-> IF "account_name" \in DOMAIN data THEN data.account_name
                               ELSE Some(<<>>),
              confidence |-> IF "confidence" \in DOMAIN data THEN data.confidence ELSE 0]
    ELSE content

(***************************************************************************)
(* The single-invoice pipeline (src/processors/invoice_processor.py).      *)
(* One task is one invocation of process_invoice.  Its steps are split     *)
(* where it touches the database or the cache, or blocks in an AI call.    *)
(***************************************************************************)
NewTask(file, vendor_id, learn_pattern) ==
    [pc |-> "queued", invoice |-> file, vendor_id |-> vendor_id,
     learn_pattern |-> learn_pattern,
     existing_pattern |-> None,   \* what get_pattern returned
     pattern_data |-> None,       \* what analyze_invoice_pattern returned
     hint |-> None,               \* extraction_pattern
     stored_pattern_id |-> NoId,  \* what store_pattern returned
     extraction_result |-> None,
     result |-> None,             \* the returned dictionary
     reused |-> FALSE,            \* took the branch that reuses existing_pattern
     get_pattern_calls |-> 0,
     analyze_calls |-> 0, extract_calls |-> 0, store_calls |-> 0, persist_calls |-> 0,
     persisted_ids |-> {},        \* the extraction rows this invocation wrote
     connections |-> 0,           \* database connections the invocation holds
     scan_missed |-> FALSE,       \* the query of store_pattern failed to list a
                                  \* persisted pattern with the hash looked for
     raised |-> ""]               \* the step that raised, "" if none did

TaskIds == 1..Len(tasks)
Running == {t \in TaskIds : tasks[t].pc \notin {"queued", "done"}}

\* a thread is free and the task is the oldest one waiting
CanStart(t) ==
    /\ t \in TaskIds
    /\ tasks[t].pc = "queued"
    /\ Cardinality(Running) < MaxWorkers
    /\ \A u \in 1..(t - 1) : tasks[u].pc # "queued"

\* variant of the except branch that reports the confidence of a hint it holds
ErrorResult_KeepsConfidence(tk, message) ==
    [vendor_id |-> tk.vendor_id, invoice_filename |-> tk.invoice.name,
     iban |-> None, account_name |-> None,
     confidence |-> IF IsNone(tk.hint) THEN 0 ELSE 1,
     validation_status |-> "error", validation_errors |-> <<message>>,
     iban_valid |-> "absent", iban_error |-> "",
     has_extraction_id |-> FALSE, extraction_id |-> NoId,
     has_processing_time |-> TRUE]

\* variant of the except branch that reports the status "failed"
ErrorResult_StatusFailed(tk, message) ==
    [vendor_id |-> tk.vendor_id, invoice_filename |-> tk.invoice.name,
     iban |-> None, account_name |-> None, confidence |-> 0,
     validation_status |-> "failed", validation_errors |-> <<message>>,
     iban_valid |-> "absent", iban_error |-> "",
     has_extraction_id |-> FALSE, extraction_id |-> NoId,
     has_processing_time |-> TRUE]

\* the dictionary of the except branch (lines 135-146)
ErrorResult(tk, message) ==
    [vendor_id |-> tk.vendor_id, invoice_filename |-> tk.invoice.name,
     iban |-> None, account_name |-> None, confidence |-> 0,
     validation_status |-> "error", validation_errors |-> <<message>>,
     iban_valid |-> "absent", iban_error |-> "",
     has_extraction_id |-> FALSE, extraction_id |-> NoId,
     has_processing_time |-> TRUE]

Fail(tk, step, message) ==
    [tk EXCEPT !.pc = "done", !.raised = step, !.result = Some(ErrorResult(tk, message))]

\* save_pattern_to_file: the write may fail, which is only logged
SavedFiles(files, vendor_id, pattern_data, fileOk) ==
    IF fileOk THEN CachePut(files, vendor_id, hash_pattern(pattern_data)) ELSE files

\* variant of ValidateFileAndGetPattern that has the layout analysed only when
\* the vendor has no pattern
ValidateFileAndGetPattern_AnalysesOnlyWithoutPattern(t) ==
    /\ CanStart(t)
    /\ LET tk == tasks[t]
       IN  IF ~ validate_file_size(tk.invoice)
           THEN /\ tasks' = [tasks EXCEPT ![t] = Fail(tk, "file", "File size exceeds limit")]
                /\ UNCHANGED patterns_cache
           ELSE IF ~ validate_file_type(tk.invoice.name)
           THEN /\ tasks' = [tasks EXCEPT ![t] = Fail(tk, "file", "Unsupported file type")]
                /\ UNCHANGED patterns_cache
           ELSE \E readOk \in IF tk.vendor_id \in DOMAIN patterns_cache
                                THEN {TRUE} ELSE BOOLEAN :
                  \E patterns_list \in get_vendor_patterns(patterns, tk.vendor_id, readOk) :
                     LET r == get_pattern(patterns_cache, tk.vendor_id, patterns_list)
                         tk1 == [tk EXCEPT !.existing_pattern = r.pattern,
                                           !.get_pattern_calls = @ + 1,
                                           !.connections =
                                              IF tk.vendor_id \in DOMAIN patterns_cache
                                              THEN @ ELSE get_connection(@)]
                     IN  /\ patterns_cache' = r.cache
                         /\ tasks' = [tasks EXCEPT ![t] =
                              IF IsNone(r.pattern)
                              THEN [tk1 EXCEPT !.pc = "analyze"]
                              ELSE [tk1 EXCEPT !.pc = "extract", !.hint = r.pattern,
                                               !.reused = TRUE]]
    /\ UNCHANGED <<alerts, batch, patterns, extractions, pattern_files, ret, calls>>

\* lines 47-57 and the branch of line 60: file checks, then get_pattern
ValidateFileAndGetPattern(t) ==
    /\ CanStart(t)
    /\ LET tk == tasks[t]
       IN  IF ~ validate_file_size(tk.invoice)
           THEN /\ tasks' = [tasks EXCEPT ![t] = Fail(tk, "file", "File size exceeds limit")]
                /\ UNCHANGED patterns_cache
           ELSE IF ~ validate_file_type(tk.invoice.name)
           THEN /\ tasks' = [tasks EXCEPT ![t] = Fail(tk, "file", "Unsupported file type")]
                /\ UNCHANGED patterns_cache
           ELSE \E readOk \in IF tk.vendor_id \in DOMAIN patterns_cache
                                THEN {TRUE} ELSE BOOLEAN :
                  \E patterns_list \in get_vendor_patterns(patterns, tk.vendor_id, readOk) :
                     LET r == get_pattern(patterns_cache, tk.vendor_id, patterns_list)
                         tk1 == [tk EXCEPT !.existing_pattern = r.pattern,
                                           !.get_pattern_calls = @ + 1,
                                           !.connections =
                                              IF tk.vendor_id \in DOMAIN patterns_cache
                                              THEN @ ELSE get_connection(@)]
                     IN  /\ patterns_cache' = r.cache
                         /\ tasks' = [tasks EXCEPT ![t] =
                              IF tk.learn_pattern \/ IsNone(r.pattern)
                              THEN [tk1 EXCEPT !.pc = "analyze"]
                              ELSE [tk1 EXCEPT !.pc = "extract", !.hint = r.pattern,
                                               !.reused = TRUE]]
    /\ UNCHANGED <<alerts, batch, patterns, extractions, pattern_files, ret, calls>>

\* variant of AnalyzePattern that stores the payload whether or not learning
\* was requested
AnalyzePattern_AlwaysStores(t) ==
    /\ t \in TaskIds
    /\ tasks[t].pc = "analyze"
    /\ LET tk == [tasks[t] EXCEPT !.analyze_calls = @ + 1]
           pattern_data == tk.invoice.layout
       IN  \/ tasks' = [tasks EXCEPT ![t] = Fail(tk, "analyze", "pattern analysis failed")]
           \/ tasks' = [tasks EXCEPT ![t] =
                          [tk EXCEPT !.pattern_data = Some(pattern_data),
                                     !.hint = Some(PayloadEntry(pattern_data)),
                                     !.pc = "store_scan"]]
    /\ UNCHANGED <<alerts, batch, patterns, extractions, patterns_cache, pattern_files, ret, calls>>

\* line 62: the AI pattern analysis returns the payload it reads off the
\* document (ANTHROPIC_TEMPERATURE = 0.0) or raises
AnalyzePattern(t) ==
    /\ t \in TaskIds
    /\ tasks[t].pc = "analyze"
    /\ LET tk == [tasks[t] EXCEPT !.analyze_calls = @ + 1]
           pattern_data == tk.invoice.layout
       IN  \/ tasks' = [tasks EXCEPT ![t] = Fail(tk, "analyze", "pattern analysis failed")]
           \/ tasks' = [tasks EXCEPT ![t] =
                          [tk EXCEPT !.pattern_data = Some(pattern_data),
                                     !.hint = Some(PayloadEntry(pattern_data)),
                                     !.pc = IF tk.learn_pattern THEN "store_scan"
                                            ELSE "extract"]]
    /\ UNCHANGED <<alerts, batch, patterns, extractions, patterns_cache, pattern_files, ret, calls>>

\* store_pattern lines 39-48: hash, query, scan; when the hash is found the
\* call returns and the backup file is written (line 73)
StorePatternScan(t) ==
    /\ t \in TaskIds
    /\ tasks[t].pc = "store_scan"
    /\ LET tk == [tasks[t] EXCEPT !.store_calls = @ + 1,
                                  !.connections = get_connection(@)]
           pattern_data == Get(tk.pattern_data)
       IN  \E scanOk, fileOk \in BOOLEAN :
             \E existing_patterns \in get_vendor_patterns(patterns, tk.vendor_id, scanOk) :
                LET found == FindExisting(existing_patterns, hash_pattern(pattern_data))
                    tk1 == [tk EXCEPT !.scan_missed =
                              /\ found = NoId
                              /\ PersistedWithHash(patterns, tk.vendor_id,
                                                   hash_pattern(pattern_data)) # NoId]
                IN  IF found # NoId
                    THEN /\ tasks' = [tasks EXCEPT ![t] =
                                        [tk1 EXCEPT !.stored_pattern_id = found, !.pc = "extract"]]
                         /\ pattern_files' = SavedFiles(pattern_files, tk.vendor_id,
                                                        pattern_data, fileOk)
                    ELSE /\ tasks' = [tasks EXCEPT ![t] = [tk1 EXCEPT !.pc = "store_insert"]]
                         /\ UNCHANGED pattern_files
    /\ UNCHANGED <<alerts, batch, patterns, extractions, patterns_cache, ret, calls>>

\* variant of StorePatternInsert in which a failed write of the backup file
\* is raised to process_invoice
StorePatternInsert_BackupRaises(t) ==
    /\ t \in TaskIds
    /\ tasks[t].pc = "store_insert"
    /\ LET tk == tasks[t]
           pattern_data == Get(tk.pattern_data)
       IN  \E insertOk, fileOk \in BOOLEAN :
             LET r == store_pattern_insert(patterns, patterns_cache, tk.vendor_id, pattern_data,
                                           pattern_data.confidence, insertOk)
             IN  /\ patterns' = r.table
                 /\ patterns_cache' = r.cache
                 /\ pattern_files' = SavedFiles(pattern_files, tk.vendor_id, pattern_data, fileOk)
                 /\ tasks' = [tasks EXCEPT ![t] =
                                IF fileOk
                                THEN [tk EXCEPT !.stored_pattern_id = r.pattern_id,
                                                !.pc = "extract",
                                                !.connections = get_connection(@)]
                                ELSE Fail([tk EXCEPT !.connections = get_connection(@)],
                                          "store", "backup failed")]
    /\ UNCHANGED <<alerts, batch, extractions, ret, calls>>

\* store_pattern lines 50-72 (insert, cache), then the backup file (line 73)
StorePatternInsert(t) ==
    /\ t \in TaskIds
    /\ tasks[t].pc = "store_insert"
    /\ LET tk == tasks[t]
           pattern_data == Get(tk.pattern_data)
       IN  \E insertOk, fileOk \in BOOLEAN :
             LET r == store_pattern_insert(patterns, patterns_cache, tk.vendor_id, pattern_data,
                                           pattern_data.confidence, insertOk)
             IN  /\ patterns' = r.table
                 /\ patterns_cache' = r.cache
                 /\ pattern_files' = SavedFiles(pattern_files, tk.vendor_id, pattern_data, fileOk)
                 /\ tasks' = [tasks EXCEPT ![t] =
                                [tk EXCEPT !.stored_pattern_id = r.pattern_id, !.pc = "extract",
                                           !.connections = get_connection(@)]]
    /\ UNCHANGED <<alerts, batch, extractions, ret, calls>>

\* variant of lines 87-107 whose data validation does not see the IBAN check
Validated_IgnoresIbanCheck(vendor_id, outcome) ==
    LET v == validate(outcome.iban)
        iban == IF v.is_valid THEN v.formatted ELSE outcome.iban
        ve == validate_extraction(vendor_id, Some(IbanGood), outcome.account_name, outcome.confidence)
    IN  [iban |-> iban, account_name |-> outcome.account_name,
         confidence |-> outcome.confidence,
         iban_valid |-> IF v.is_valid THEN "true" ELSE "false",
         iban_error |-> v.error,
         validation_status |-> IF ve.is_valid THEN "valid" ELSE "invalid",
         validation_errors |-> ve.errors]

\* lines 87-107: the dictionary after the IBAN check and the data validation
Validated(vendor_id, outcome) ==
    LET v == validate(outcome.iban)
        iban == IF v.is_valid THEN v.formatted ELSE outcome.iban
        ve == validate_extraction(vendor_id, iban, outcome.account_name, outcome.confidence)
    IN  [iban |-> iban, account_name |-> outcome.account_name,
         confidence |-> outcome.confidence,
         iban_valid |-> IF v.is_valid THEN "true" ELSE "false",
         iban_error |-> v.error,
         validation_status |-> IF ve.is_valid THEN "valid" ELSE "invalid",
         validation_errors |-> ve.errors]

\* lines 81-107: the AI extraction returns the dictionary it reads off the
\* document or raises; a confidence that is not a number raises in
\* validate_confidence_score
ExtractAndValidate(t) ==
    /\ t \in TaskIds
    /\ tasks[t].pc = "extract"
    /\ LET tk == [tasks[t] EXCEPT !.extract_calls = @ + 1]
           outcome == Extracted(tk.invoice.content)
       IN  \/ tasks' = [tasks EXCEPT ![t] = Fail(tk, "extract", "extraction failed")]
           \/ tasks' = [tasks EXCEPT ![t] =
                          IF outcome.confidence = ConfNull
                          THEN Fail(tk, "validate", "TypeError")
                          ELSE [tk EXCEPT !.extraction_result =
                                             Some(Validated(tk.vendor_id, outcome)),
                                          !.pc = "persist"]]
    /\ UNCHANGED <<alerts, batch, patterns, extractions, patterns_cache, pattern_files, ret, calls>>

\* lines 109-133: insert_extraction, backfill, return
PersistExtraction(t) ==
    /\ t \in TaskIds
    /\ tasks[t].pc = "persist"
    /\ LET tk == tasks[t]
           er == Get(tk.extraction_result)
           pattern_id == IF IsNone(tk.existing_pattern) THEN NoId
                         ELSE Get(tk.existing_pattern).pattern_id
       IN  \E insertOk \in BOOLEAN :
             LET ins == insert_extraction(extractions, tk.vendor_id, pattern_id,
                                          tk.invoice.name, er.iban, er.account_name,
                                          er.confidence, insertOk)
             IN  /\ extractions' = ins.table
                 /\ tasks' = [tasks EXCEPT ![t] =
                      [tk EXCEPT !.pc = "done", !.persist_calls = @ + 1,
                         !.connections = get_connection(@),
                         !.persisted_ids =
                            {i \in 1..Len(ins.table) : i > Len(extractions)},
                         !.result = Some(
                           [vendor_id |-> tk.vendor_id, invoice_filename |-> tk.invoice.name,
                            iban |-> er.iban, account_name |-> er.account_name,
                            confidence |-> er.confidence,
                            validation_status |-> er.validation_status,
                            validation_errors |-> er.validation_errors,
                            iban_valid |-> er.iban_valid, iban_error |-> er.iban_error,
                            has_extraction_id |-> TRUE, extraction_id |-> ins.extraction_id,
                            has_processing_time |-> TRUE])]]
    /\ UNCHANGED <<alerts, batch, patterns, patterns_cache, pattern_files, ret, calls>>

\* one step of one invocation
PipelineStep(t) ==
    \/ ValidateFileAndGetPattern(t)
    \/ AnalyzePattern(t)
    \/ StorePatternScan(t)
    \/ StorePatternInsert(t)
    \/ ExtractAndValidate(t)
    \/ PersistExtraction(t)

(***************************************************************************)
(* process_invoice called by up to MaxWorkers threads at a time            *)
(***************************************************************************)
GoodContent == [iban |-> Some(IbanGood), account_name |-> Some(AccountName), confidence |-> 95]
BadChecksumContent ==
    [iban |-> Some(IbanBadChecksum), account_name |-> Some(AccountName), confidence |-> 95]

\* an invoice file: its name, its size, and what the AI reads off it: the
\* layout, and the extraction as a dictionary or as the text of the response
InvoiceFile(name, size_mb, layout, content) ==
    [name |-> name, size_mb |-> size_mb, layout |-> layout, content |-> content]

\* the calls of SpecPipeline: an invoice of vendor v1 and one of vendor v2
PipelineCalls ==
    { [file |-> InvoiceFile(<<"a", ".", "p", "d", "f">>, 1, Payloads[1], GoodContent),
       vendor_id |-> V1],
      [file |-> InvoiceFile(<<"b", ".", "p", "d", "f">>, 1, Payloads[2], BadChecksumContent),
       vendor_id |-> V2] }

\* InvoiceProcessor.process_invoice(invoice_path, vendor_id, learn_pattern)
Invoke(file, vendor_id, learn_pattern) ==
    /\ Len(tasks) < MaxInvocations
    /\ tasks' = Append(tasks, NewTask(file, vendor_id, learn_pattern))
    /\ UNCHANGED <<alerts, batch, patterns, extractions, patterns_cache, pattern_files, ret, calls>>

NextPipeline ==
    \/ \E c \in PipelineCalls, l \in BOOLEAN : Invoke(c.file, c.vendor_id, l)
    \/ \E t \in TaskIds : PipelineStep(t)

SpecPipeline == InitStore /\ [][NextPipeline]_vars

(***************************************************************************)
(* process_invoice called once, on any kind of invoice                     *)
(***************************************************************************)
MaxResponseLen == 4

Responses == UNION {[1..n -> ResponsePieces] : n \in 0..MaxResponseLen}

InvoiceFiles ==
    { InvoiceFile(<<"a", ".", "p", "d", "f">>, 1, layout, content) :
        layout \in PayloadSet, content \in ExtractionOutcomes }
    \cup { InvoiceFile(<<"a", ".", "p", "d", "f">>, 1, Payloads[1], [response |-> r]) :
             r \in Responses }
    \cup { InvoiceFile(<<"b", ".", "P", "D", "F">>, 12, Payloads[1], GoodContent),
           InvoiceFile(<<"c", ".", "t", "x", "t">>, 1, Payloads[1], GoodContent),
           InvoiceFile(<<"d", ".", "J", "p", "g">>, 10, Payloads[1], GoodContent) }

InvokeOnce(file, vendor_id, learn_pattern) ==
    /\ tasks = <<>>
    /\ tasks' = <<NewTask(file, vendor_id, learn_pattern)>>
    /\ UNCHANGED <<alerts, batch, patterns, extractions, patterns_cache, pattern_files, ret, calls>>

NextInvoice ==
    \/ \E f \in InvoiceFiles, v \in StoreVendors \cup {<<" ">>}, l \in BOOLEAN :
         InvokeOnce(f, v, l)
    \/ \E t \in TaskIds : PipelineStep(t)

SpecInvoice == InitStore /\ [][NextInvoice]_vars

(***************************************************************************)
(* Batch orchestrator (src/processors/batch_processor.py)                  *)
(***************************************************************************)
\* the characters of file names, in code point order
AsciiOrder == <<".">> \o DigitChars \o UpperLetters \o <<"_">> \o LowerLetters
CharCode(c) == CHOOSE i \in 1..Len(AsciiOrder) : AsciiOrder[i] = c

\* a < b for Python strings
RECURSIVE StrLess(_, _)
StrLess(a, b) ==
    IF b = <<>> THEN FALSE
    ELSE IF a = <<>> THEN TRUE
    ELSE IF Head(a) = Head(b) THEN StrLess(Tail(a), Tail(b))
    ELSE CharCode(Head(a)) < CharCode(Head(b))

\* variant of sorted that lists the files in descending order
sorted_Descending(files) ==
    CHOOSE f \in [1..Cardinality(files) -> files] :
        \A i, j \in 1..Cardinality(files) : i < j => StrLess(f[j].name, f[i].name)

\* sorted(invoice_files): the files of one directory by ascending name
sorted(files) ==
    CHOOSE f \in [1..Cardinality(files) -> files] :
        \A i, j \in 1..Cardinality(files) : i < j => StrLess(f[i].name, f[j].name)

\* dir_path.glob("*." + format_ext)
Glob(files, format_ext) ==
    {f \in files : /\ Len(f.name) > Len(format_ext)
                   /\ SubSeq(f.name, Len(f.name) - Len(format_ext), Len(f.name))
                        = <<".">> \o format_ext}

\* a directory is the set of its files, None when it does not exist
_get_invoice_files(directory) ==
    IF IsNone(directory) THEN <<>>
    ELSE sorted(UNION {Glob(Get(directory), format_ext) : format_ext \in SUPPORTED_FORMATS})

\* Path.stem: the name without its last suffix
Stem(name) ==
    LET i == LastIndex(name, ".")
    IN  IF 1 < i /\ i < Len(name) THEN SubSeq(name, 1, i - 1) ELSE name

\* s.split('_')[0]
FirstPart(s) ==
    LET i == FirstIndex(s, "_") IN IF i = 0 THEN s ELSE SubSeq(s, 1, i - 1)

\* str.isalnum()
isalnum(s) == s # <<>> /\ \A i \in 1..Len(s) : IsAlnum(s[i])

\* _get_vendor_id: vendor_mapping lists the items of the dictionary in its
\* order; the result is None when nothing matches
_get_vendor_id(name, vendor_mapping) ==
    LET filename == Lower(name)
        exact == {k \in 1..Len(vendor_mapping) : vendor_mapping[k].pattern = filename}
        within == {k \in 1..Len(vendor_mapping) :
                      Contains(filename, Lower(vendor_mapping[k].pattern))}
        potential_id == FirstPart(Stem(name))
    IN  IF exact # {} THEN Some(vendor_mapping[CHOOSE k \in exact : TRUE].vendor_id)
        ELSE IF within # {}
        THEN Some(vendor_mapping[CHOOSE k \in within : \A l \in within : k <= l].vendor_id)
        ELSE IF isalnum(potential_id) THEN Some(potential_id)
        ELSE None

\* variant of Skipped that skips a file only when no vendor id was found
Skipped_OnlyNone(vendor_id) == IsNone(vendor_id)

\* "if not vendor_id: continue"
Skipped(vendor_id) == IsNone(vendor_id) \/ Get(vendor_id) = <<>>

(***************************************************************************)
(* Float arithmetic of the summary.  A confidence is a binary64 value: zero *)
(* (an empty significand) or mant * 2^exp with mant a significand of 53     *)
(* bits, most significant first.  Results are rounded to nearest, ties to   *)
(* even.                                                                    *)
(***************************************************************************)
SignificandBits == 53
\* quotient bits computed beyond the significand before rounding
ExtraBits == 10

FZero == [mant |-> <<>>, exp |-> 0]

Zeros(k) == [i \in 1..k |-> 0]

PadLeft(bits, n) == Zeros(n - Len(bits)) \o bits

RECURSIVE StripZeros(_)
StripZeros(bits) ==
    IF bits # <<>> /\ Head(bits) = 0 THEN StripZeros(Tail(bits)) ELSE bits

\* the binary digits of a natural number
RECURSIVE Bits(_)
Bits(n) == IF n = 0 THEN <<>> ELSE Bits(n \div 2) \o <<n % 2>>

\* digit sequences are added and divided in limbs of eight digits
Weights == <<128, 64, 32, 16, 8, 4, 2, 1>>

ToLimbs(bits) ==
    LET n == (Len(bits) + 7) \div 8
        p == PadLeft(bits, 8 * n)
    IN  [j \in 1..n |-> p[8 * j - 7] * 128 + p[8 * j - 6] * 64 + p[8 * j - 5] * 32
                        + p[8 * j - 4] * 16 + p[8 * j - 3] * 8 + p[8 * j - 2] * 4
                        + p[8 * j - 1] * 2 + p[8 * j]]

FromLimbs(limbs) ==
    [i \in 1..(8 * Len(limbs)) |-> (limbs[(i + 7) \div 8] \div Weights[((i - 1) % 8) + 1]) % 2]

RECURSIVE AddLimbs(_, _, _)
AddLimbs(a, b, carry) ==
    IF a = <<>> THEN <<carry>>
    ELSE LET n == Len(a)
             t == a[n] + b[n] + carry
         IN  AddLimbs(SubSeq(a, 1, n - 1), SubSeq(b, 1, n - 1), t \div 256) \o <<t % 256>>

\* the sum of two digit sequences of the same length, without leading zeros
AddBits(a, b) == StripZeros(FromLimbs(AddLimbs(ToLimbs(a), ToLimbs(b), 0)))

RECURSIVE DivLimbs(_, _, _)
DivLimbs(limbs, n, rem) ==
    IF limbs = <<>> THEN [q |-> <<>>, rem |-> rem]
    ELSE LET cur == 256 * rem + Head(limbs)
             r == DivLimbs(Tail(limbs), n, cur % n)
         IN  [q |-> <<cur \div n>> \o r.q, rem |-> r.rem]

\* the quotient of a digit sequence by a small positive integer, and the
\* remainder
LongDiv(bits, n) ==
    LET r == DivLimbs(ToLimbs(bits), n, 0)
    IN  [q |-> FromLimbs(r.q), rem |-> r.rem]

\* the binary64 value nearest to bits * 2^exp (plus a fraction of the last
\* digit when sticky), ties to even
Round(bits, exp, sticky) ==
    LET b == StripZeros(bits)
        n == Len(b)
    IN  IF n = 0 THEN FZero
        ELSE IF n <= SignificandBits
        THEN [mant |-> b \o Zeros(SignificandBits - n), exp |-> exp - (SignificandBits - n)]
        ELSE LET kept == SubSeq(b, 1, SignificandBits)
                 rest == SubSeq(b, SignificandBits + 1, n)
                 above == /\ rest[1] = 1
                          /\ (sticky \/ \E i \in 2..Len(rest) : rest[i] = 1)
                 tie == rest[1] = 1 /\ ~ above
                 r == IF above \/ (tie /\ kept[SignificandBits] = 1)
                      THEN AddBits(kept, PadLeft(<<1>>, SignificandBits))
                      ELSE kept
             IN  IF Len(r) > SignificandBits
                 THEN [mant |-> SubSeq(r, 1, SignificandBits),
                       exp |-> exp + (n - SignificandBits) + 1]
                 ELSE [mant |-> r, exp |-> exp + (n - SignificandBits)]

\* float + float
FAdd(a, b) ==
    IF a = FZero THEN b
    ELSE IF b = FZero THEN a
    ELSE LET hi == IF a.exp >= b.exp THEN a ELSE b
             lo == IF a.exp >= b.exp THEN b ELSE a
             x == hi.mant \o Zeros(hi.exp - lo.exp)
         IN  Round(AddBits(x, PadLeft(lo.mant, Len(x))), lo.exp, FALSE)

\* float / int, for a small positive divisor
FDivInt(a, n) ==
    IF a = FZero THEN FZero
    ELSE LET r == LongDiv(a.mant \o Zeros(ExtraBits), n)
         IN  Round(r.q, a.exp - ExtraBits, r.rem # 0)

\* the float of a confidence the AI wrote as a decimal of hundredths
ToFloat(hundredths) == FDivInt(Round(Bits(hundredths), 0, FALSE), 100)

\* variant of WithStatus that keeps every result
WithStatus_All(results, statuses) == results

\* the results with this validation status
WithStatus(results, statuses) ==
    SelectSeq(results, LAMBDA r : r.validation_status \in statuses)

\* sum(r.get('confidence', 0.0) for r in results): the floats are added one
\* by one in the order of the list, starting from 0 (CPython up to 3.11;
\* 3.12 compensates the sum)
RECURSIVE SumConfidence(_, _)
SumConfidence(start, results) ==
    IF results = <<>> THEN start
    ELSE SumConfidence(FAdd(start, ToFloat(Head(results).confidence)), Tail(results))

\* variant of _generate_summary that counts as high from the lower threshold
_generate_summary_HighFromMin(results) ==
    LET total == Len(results)
        valid_results == WithStatus(results, {"valid"})
        successful == Len(valid_results)
    IN  [success |-> TRUE,
         total |-> total,
         successful |-> successful,
         failed |-> Len(WithStatus(results, {"invalid", "error"})),
         success_rate |-> IF total > 0 THEN [num |-> successful * 100, den |-> total]
                          ELSE [num |-> 0, den |-> 1],
         average_confidence |-> IF successful > 0
                                THEN FDivInt(SumConfidence(FZero, valid_results), successful)
                                ELSE FZero,
         confidence_distribution |->
            [high |-> Len(SelectSeq(valid_results,
                            LAMBDA r : r.confidence >= MIN_CONFIDENCE_THRESHOLD)),
             medium |-> Len(SelectSeq(valid_results,
                            LAMBDA r : /\ MIN_CONFIDENCE_THRESHOLD <= r.confidence
                                       /\ r.confidence < MAX_CONFIDENCE_THRESHOLD)),
             low |-> Len(SelectSeq(valid_results,
                            LAMBDA r : r.confidence < MIN_CONFIDENCE_THRESHOLD))],
         results |-> results]

\* _generate_summary; the success rate is kept as numerator and denominator,
\* the average confidence is the float the code computes, and the processing
\* times are not modelled
_generate_summary(results) ==
    LET total == Len(results)
        valid_results == WithStatus(results, {"valid"})
        successful == Len(valid_results)
    IN  [success |-> TRUE,
         total |-> total,
         successful |-> successful,
         failed |-> Len(WithStatus(results, {"invalid", "error"})),
         success_rate |-> IF total > 0 THEN [num |-> successful * 100, den |-> total]
                          ELSE [num |-> 0, den |-> 1],
         average_confidence |-> IF successful > 0
                                THEN FDivInt(SumConfidence(FZero, valid_results), successful)
                                ELSE FZero,
         confidence_distribution |->
            [high |-> Len(SelectSeq(valid_results,
                            LAMBDA r : r.confidence >= MAX_CONFIDENCE_THRESHOLD)),
             medium |-> Len(SelectSeq(valid_results,
                            LAMBDA r : /\ MIN_CONFIDENCE_THRESHOLD <= r.confidence
                                       /\ r.confidence < MAX_CONFIDENCE_THRESHOLD)),
             low |-> Len(SelectSeq(valid_results,
                            LAMBDA r : r.confidence < MIN_CONFIDENCE_THRESHOLD))],
         results |-> results]

\* variant of valid_extractions that keeps every result
valid_extractions_All(results) == results

\* line 137: the results handed to generate_csv
valid_extractions(results) == WithStatus(results, {"valid"})

\* CSVGenerator.generate_csv: the data rows written, one per extraction
generate_csv(extraction_list) ==
    [i \in 1..Len(extraction_list) |->
        [vendor_id |-> GetOr(extraction_list[i], "vendor_id", <<>>),
         iban |-> GetOr(extraction_list[i], "iban", Some(<<>>)),
         account_name |-> GetOr(extraction_list[i], "account_name", Some(<<>>)),
         confidence_score |-> GetOr(extraction_list[i], "confidence_score", 0)]]

\* CSVGenerator.generate_validation_report: the data rows written (vendor
\* name and time of processing are left out)
generate_validation_report(extraction_list) ==
    [i \in 1..Len(extraction_list) |->
        LET extraction == extraction_list[i]
            score == GetOr(extraction, "confidence_score", 0)
        IN  [vendor_id |-> GetOr(extraction, "vendor_id", <<>>),
             invoice_filename |-> GetOr(extraction, "invoice_filename", <<>>),
             iban |-> GetOr(extraction, "iban", Some(<<>>)),
             account_name |-> GetOr(extraction, "account_name", Some(<<>>)),
             confidence_score |-> score,
             confidence_level |-> IF score >= MAX_CONFIDENCE_THRESHOLD THEN "HIGH"
                                  ELSE IF score >= MIN_CONFIDENCE_THRESHOLD THEN "MEDIUM"
                                  ELSE "LOW",
             validation_status |-> GetOr(extraction, "validation_status", "pending"),
             validation_errors |-> GetOr(extraction, "validation_errors", <<>>)]]

\* variant of NoFilesFound that reports success
NoFilesFound_Success == [success |-> TRUE, message |-> "No files found"]

\* the return value when no invoice file was found
NoFilesFound == [success |-> FALSE, message |-> "No files found"]

\* variant of CollectResult that keeps only the results without an error
CollectResult_DropsErrors(results, result) ==
    IF result.validation_status = "error" THEN results ELSE Append(results, result)

\* results.append(result)
CollectResult(results, result) == Append(results, result)

\* the directories and vendor mappings of the batch calls
\* an extraction the AI reports with a confidence between the two thresholds
MediumContent == [iban |-> Some(IbanGood), account_name |-> Some(AccountName), confidence |-> 80]
FileM == InvoiceFile(<<"M", ".", "p", "d", "f">>, 1, Payloads[2], MediumContent)
FileA == InvoiceFile(<<"v", "1", "_", "a", ".", "p", "d", "f">>, 1, Payloads[1], GoodContent)
\* an extraction of another valid IBAN that the AI reports with a confidence
\* below the lower threshold
LowContent == [iban |-> Some(IbanGB), account_name |-> Some(AccountName), confidence |-> 50]
FileB == InvoiceFile(<<"v", "1", "_", "b", ".", "p", "d", "f">>, 1, Payloads[1], LowContent)
FileX == InvoiceFile(<<"_", "x", ".", "p", "d", "f">>, 1, Payloads[1], GoodContent)
FileN == InvoiceFile(<<"n", ".", "t", "x", "t">>, 1, Payloads[1], GoodContent)
Directories == {None, Some({FileN}), Some({FileM, FileA, FileB, FileX, FileN})}
VendorMappings ==
    { <<>>,
      <<[pattern |-> <<"m", ".", "p", "d", "f">>, vendor_id |-> V2]>>,
      <<[pattern |-> <<"V", "1", "_", "A">>, vendor_id |-> <<>>]>> }

\* the database a training batch on v1_a.pdf leaves behind
TrainedPatterns ==
    store_pattern_insert(<<>>, <<>>, V1, FileA.layout, FileA.layout.confidence, TRUE).table
TrainedExtractions ==
    insert_extraction(<<>>, V1, NoId, FileA.name, Some(IbanGood), Some(AccountName),
                      95, TRUE).table

\* a new process: an empty or a trained database, a new BatchProcessor
Init ==
    /\ \/ patterns = <<>> /\ extractions = <<>>
       \/ patterns = TrainedPatterns /\ extractions = TrainedExtractions
    /\ patterns_cache = <<>>
    /\ pattern_files = <<>>
    /\ ret = NoCall
    /\ calls = 0
    /\ tasks = <<>>
    /\ batch = NoBatch
    /\ alerts = <<>>

\* process_training_batch up to its loop (lines 40-49)
process_training_batch(invoice_directory, vendor_mapping) ==
    /\ batch.mode = "none"
    /\ LET invoice_files == _get_invoice_files(invoice_directory)
           b == [batch EXCEPT !.mode = "training", !.directory = invoice_directory,
                              !.vendor_mapping = vendor_mapping,
                              !.invoice_files = invoice_files]
       IN  batch' = IF invoice_files = <<>>
                    THEN [b EXCEPT !.pc = "returned", !.summary = Some(NoFilesFound)]
                    ELSE [b EXCEPT !.pc = "loop"]
    /\ UNCHANGED <<alerts, patterns, extractions, patterns_cache, pattern_files, ret, calls, tasks>>

\* the loop of lines 54-61: the next file is skipped or handed to
\* process_training_invoice, which is process_invoice with learn_pattern=True
TrainingNext ==
    /\ batch.mode = "training" /\ batch.pc = "loop"
    /\ batch.next <= Len(batch.invoice_files)
    /\ LET invoice_path == batch.invoice_files[batch.next]
           vendor_id == _get_vendor_id(invoice_path.name, batch.vendor_mapping)
       IN  IF Skipped(vendor_id)
           THEN /\ batch' = [batch EXCEPT !.next = @ + 1]
                /\ UNCHANGED tasks
           ELSE /\ tasks' = Append(tasks, NewTask(invoice_path, Get(vendor_id), TRUE))
                /\ batch' = [batch EXCEPT !.pc = "calling", !.handed = Append(@, batch.next)]
    /\ UNCHANGED <<alerts, patterns, extractions, patterns_cache, pattern_files, ret, calls>>

\* lines 61-65: the call returns and its result is appended
TrainingReturn ==
    /\ batch.mode = "training" /\ batch.pc = "calling"
    /\ tasks[Len(tasks)].pc = "done"
    /\ batch' = [batch EXCEPT !.pc = "loop", !.next = @ + 1,
                              !.collected = @ \cup {Len(tasks)},
                              !.results = CollectResult(@, Get(tasks[Len(tasks)].result))]
    /\ UNCHANGED <<alerts, patterns, extractions, patterns_cache, pattern_files, ret, calls, tasks>>

\* lines 67-73
TrainingFinish ==
    /\ batch.mode = "training" /\ batch.pc = "loop"
    /\ batch.next > Len(batch.invoice_files)
    /\ batch' = [batch EXCEPT !.pc = "returned",
                   !.summary = Some(_generate_summary(batch.results)
                                    @@ [mode |-> "training"])]
    /\ UNCHANGED <<alerts, patterns, extractions, patterns_cache, pattern_files, ret, calls, tasks>>

\* the positions of the files that are not skipped, in order
RECURSIVE Submitted(_, _, _)
Submitted(invoice_files, vendor_mapping, i) ==
    IF i > Len(invoice_files) THEN <<>>
    ELSE (IF Skipped(_get_vendor_id(invoice_files[i].name, vendor_mapping))
          THEN <<>> ELSE <<i>>)
         \o Submitted(invoice_files, vendor_mapping, i + 1)

\* process_production_batch up to the end of its submit loop (lines 86-116):
\* every file that is not skipped is submitted to the executor with
\* learn_pattern=False
process_production_batch(invoice_directory, vendor_mapping) ==
    /\ batch.mode = "none"
    /\ LET invoice_files == _get_invoice_files(invoice_directory)
           handed == Submitted(invoice_files, vendor_mapping, 1)
           b == [batch EXCEPT !.mode = "production", !.directory = invoice_directory,
                              !.vendor_mapping = vendor_mapping,
                              !.invoice_files = invoice_files]
       IN  IF invoice_files = <<>>
           THEN /\ batch' = [b EXCEPT !.pc = "returned", !.summary = Some(NoFilesFound)]
                /\ UNCHANGED tasks
           ELSE /\ batch' = [b EXCEPT !.pc = "collect", !.handed = handed]
                /\ tasks' = [k \in 1..Len(handed) |->
                               NewTask(invoice_files[handed[k]],
                                       Get(_get_vendor_id(invoice_files[handed[k]].name,
                                                          vendor_mapping)),
                                       FALSE)]
    /\ UNCHANGED <<alerts, patterns, extractions, patterns_cache, pattern_files, ret, calls>>

\* lines 119-123: as_completed yields a finished future and its result is
\* appended (process_invoice catches every Exception, so future.result()
\* does not raise)
Collect(t) ==
    /\ batch.mode = "production" /\ batch.pc = "collect"
    /\ t \in TaskIds \ batch.collected
    /\ tasks[t].pc = "done"
    /\ batch' = [batch EXCEPT !.collected = @ \cup {t},
                              !.results = CollectResult(@, Get(tasks[t].result))]
    /\ UNCHANGED <<alerts, patterns, extractions, patterns_cache, pattern_files, ret, calls, tasks>>

\* lines 132-148: summary, CSV of the valid extractions, validation report;
\* a failure to write an output file is raised to the caller
ProductionFinish ==
    /\ batch.mode = "production" /\ batch.pc = "collect"
    /\ batch.collected = TaskIds
    /\ \E outputOk \in BOOLEAN :
         batch' = IF outputOk
                  THEN [batch EXCEPT !.pc = "returned",
                          !.export_calls =
                             IF valid_extractions(batch.results) # <<>> THEN 2 ELSE 1,
                          !.csv_rows = generate_csv(valid_extractions(batch.results)),
                          !.report_rows = generate_validation_report(batch.results),
                          !.summary = Some(
                             _generate_summary(batch.results)
                             @@ [mode |-> "production", validation_report |-> batch.results]
                             @@ (IF valid_extractions(batch.results) # <<>>
                                 THEN [csv_output |-> valid_extractions(batch.results)]
                                 ELSE <<>>))]
                  ELSE [batch EXCEPT !.pc = "raised", !.export_calls = 1]
    /\ UNCHANGED <<alerts, patterns, extractions, patterns_cache, pattern_files, ret, calls, tasks>>

\* one batch call of a process and the invocations it makes
Next ==
    \/ \E d \in Directories, m \in VendorMappings : process_training_batch(d, m)
    \/ \E d \in Directories, m \in VendorMappings : process_production_batch(d, m)
    \/ TrainingNext
    \/ TrainingReturn
    \/ TrainingFinish
    \/ \E t \in TaskIds : PipelineStep(t)
    \/ \E t \in TaskIds : Collect(t)
    \/ ProductionFinish

Spec == Init /\ [][Next]_vars

\* The same, with the scheduling of the executor: a submitted invocation gets
\* a thread, every call of an invocation returns or raises, as_completed
\* yields every finished future, and the statements after the loop are run.
SpecLive ==
    /\ Init
    /\ [][Next]_vars
    /\ WF_vars(\E t \in TaskIds : PipelineStep(t))
    /\ WF_vars(\E t \in TaskIds : Collect(t))
    /\ WF_vars(ProductionFinish)

(***************************************************************************)
(* The IBAN validator called on one input                                  *)
(***************************************************************************)
\* whitespace characters inserted into an input
MaxInserted == 1

IbanDE == <<"D", "E", "8", "9", "3", "7", "0", "4", "0", "0", "4", "4", "0", "5", "3", "2", "0", "1", "3", "0", "0", "0">>
IbanAT == <<"A", "T", "6", "1", "1", "9", "0", "4", "3", "0", "0", "2", "3", "4", "5", "7", "3", "2", "0", "1">>
\* correct check digits for a country code no registry knows
IbanUnknownCountry == <<"Z", "Z", "0", "7", "A", "I", "B", "K", "9", "3", "1", "1", "5", "2", "1", "2", "3", "4", "5", "6", "7", "8">>
\* correct check digits, 20 characters where an Irish IBAN has 22
IbanWrongCountryLength == <<"I", "E", "5", "9", "A", "I", "B", "K", "9", "3", "1", "1", "5", "2", "1", "2", "3", "4", "5", "6">>
\* correct check digits, digits where the Irish bank code has letters
IbanBadStructure == <<"I", "E", "1", "6", "1", "2", "A", "B", "9", "3", "1", "1", "5", "2", "1", "2", "3", "4", "5", "6", "7", "8">>
\* correct check digits, 39 characters
IbanTooLong == <<"I", "E", "1", "2", "A", "I", "B", "K", "9", "3", "1", "1", "5", "2", "1", "2", "3", "4", "5", "6", "7", "8", "1", "2", "3", "4", "5", "6", "7", "8", "9", "0", "1", "2", "3", "4", "5", "6", "7">>

IbanBases == {IbanGood, IbanGB, IbanDE, IbanAT, IbanBadChecksum, IbanBadFormat, IbanTooShort,
              IbanUnknownCountry, IbanWrongCountryLength, IbanBadStructure, IbanTooLong,
              <<>>, <<"I", "E">>, <<"1", "2", "A", "B">>}

InsertAt(s, k, c) == SubSeq(s, 1, k) \o <<c>> \o SubSeq(s, k + 1, Len(s))

\* s with up to n whitespace characters inserted
RECURSIVE Spaced(_, _)
Spaced(s, n) ==
    IF n = 0 THEN {s}
    ELSE Spaced(s, n - 1)
         \cup {InsertAt(u, k, " ") : u \in Spaced(s, n - 1), k \in 0..Len(s) + n - 1}
         \cup {InsertAt(u, Len(u), "\t") : u \in Spaced(s, n - 1)}

\* the inputs: the bases in upper and in lower case, with whitespace inserted
IbanInputs ==
    UNION {Spaced(b, MaxInserted) \cup Spaced(Lower(b), MaxInserted) : b \in IbanBases}

GroupSizes == {-1, 0, 1, 4, 5}

InitIban ==
    /\ patterns = <<>> /\ extractions = <<>> /\ patterns_cache = <<>>
    /\ pattern_files = <<>> /\ calls = 0 /\ tasks = <<>>
    /\ batch = NoBatch /\ alerts = <<>>
    /\ ret \in {[op |-> "input", input |-> x] : x \in IbanInputs}

\* iban_validator.validate(input)
ValidateIban ==
    /\ ret.op = "input"
    /\ ret' = [op |-> "validate", input |-> ret.input, result |-> validate(Some(ret.input))]
    /\ UNCHANGED <<alerts, batch, patterns, extractions, patterns_cache, pattern_files, calls, tasks>>

\* iban_validator.validate(iban_validator.format_iban(input, ' ', group_size))
FormatAndValidateIban(group_size) ==
    /\ ret.op = "input"
    /\ LET f == format_iban(ret.input, <<" ">>, group_size)
       IN  ret' = [op |-> "format", input |-> ret.input, group_size |-> group_size,
                   raised |-> f.raised, formatted |-> f.value,
                   result |-> validate(Some(f.value))]
    /\ UNCHANGED <<alerts, batch, patterns, extractions, patterns_cache, pattern_files, calls, tasks>>

NextIban ==
    \/ ValidateIban
    \/ \E g \in GroupSizes : FormatAndValidateIban(g)

SpecIban == InitIban /\ [][NextIban]_vars

(***************************************************************************)
(* The data validator called on one input                                  *)
(***************************************************************************)
ValidationVendors == {V1, <<>>, <<" ">>}
ValidationIbans == {Some(IbanGood), Some(IbanBadChecksum), Some(IbanBadFormat), Some(<<>>), None}
ValidationAccountNames ==
    {Some(AccountName), Some(<<"A">>), Some(<<"A", "b">>), Some(<<"A", " ">>),
     Some(<<" ", "A", "b">>), Some(<<"-", "-">>), Some(<<"-", "1">>), Some(<<" ", " ">>),
     Some(<<>>), None}
\* scores around the two thresholds and the ends of the range, in hundredths
ValidationScores == {0, 50, 69, 70, 80, 89, 90, 95, 100, 101}

InitValidation ==
    /\ patterns = <<>> /\ extractions = <<>> /\ patterns_cache = <<>>
    /\ pattern_files = <<>> /\ calls = 0 /\ tasks = <<>>
    /\ batch = NoBatch /\ alerts = <<>>
    /\ ret \in {[op |-> "input", vendor_id |-> v, iban |-> i, account_name |-> a,
                 confidence_score |-> c] :
                   v \in ValidationVendors, i \in ValidationIbans,
                   a \in ValidationAccountNames, c \in ValidationScores}

\* data_validator.validate_extraction(vendor_id, iban, account_name, confidence_score)
ValidateExtraction ==
    /\ ret.op = "input"
    /\ ret' = [ret EXCEPT !.op = "validate_extraction"]
              @@ [result |-> validate_extraction(ret.vendor_id, ret.iban, ret.account_name,
                                                 ret.confidence_score)]
    /\ UNCHANGED <<alerts, batch, patterns, extractions, patterns_cache, pattern_files, calls, tasks>>

\* data_validator.get_confidence_level(confidence_score)
GetConfidenceLevel ==
    /\ ret.op = "input"
    /\ ret' = [ret EXCEPT !.op = "get_confidence_level"]
              @@ [level |-> get_confidence_level(ret.confidence_score)]
    /\ UNCHANGED <<alerts, batch, patterns, extractions, patterns_cache, pattern_files, calls, tasks>>

NextValidation ==
    \/ ValidateExtraction
    \/ GetConfidenceLevel

SpecValidation == InitValidation /\ [][NextValidation]_vars

(***************************************************************************)
(* validate_pattern_change called on one input                             *)
(***************************************************************************)
\* IBANs as they are stored and extracted: upper or lower case, with or
\* without spaces
ChangeIbans ==
    UNION {{b, Lower(b), InsertAt(b, 4, " "), InsertAt(Lower(b), 2, " ")} :
             b \in {IbanGood, IbanBadChecksum, IbanGB, IbanDE, IbanAT, IbanTooShort}}

InitChange ==
    /\ patterns = <<>> /\ extractions = <<>> /\ patterns_cache = <<>>
    /\ pattern_files = <<>> /\ calls = 0 /\ tasks = <<>>
    /\ batch = NoBatch /\ alerts = <<>>
    /\ ret \in {[op |-> "input", vendor_id |-> V1, new_iban |-> n, previous_iban |-> p] :
                   n \in ChangeIbans,
                   p \in {Some(x) : x \in ChangeIbans} \cup {None, Some(<<>>)}}

\* data_validator.validate_pattern_change(vendor_id, new_iban, previous_iban):
\* returned is the tuple the caller receives
ValidatePatternChange ==
    /\ ret.op = "input"
    /\ LET r == validate_pattern_change(ret.vendor_id, ret.new_iban, ret.previous_iban)
       IN  ret' = [ret EXCEPT !.op = "validate_pattern_change"]
                  @@ [returned |-> [should_alert |-> r.should_alert,
                                    alert_message |-> r.alert_message],
                      log_level |-> r.log_level]
    /\ UNCHANGED <<alerts, batch, patterns, extractions, patterns_cache, pattern_files, calls, tasks>>

NextChange == ValidatePatternChange

SpecChange == InitChange /\ [][NextChange]_vars

(***************************************************************************)
(* _get_vendor_id called on one file name and one mapping                  *)
(***************************************************************************)
ResolveNames ==
    { <<"M", ".", "p", "d", "f">>, <<"m", ".", "p", "d", "f">>,
      <<"v", "1", "_", "a", ".", "p", "d", "f">>, <<"_", "x", ".", "p", "d", "f">>,
      <<"a", "-", "b", ".", "p", "d", "f">>, <<"V", "1", "_", "m", ".", "p", "d", "f">> }

ResolvePatterns ==
    { <<"m">>, <<"M", ".", "p", "d", "f">>, <<"m", ".", "p", "d", "f">>, <<"v", "1">> }

\* dictionaries of at most two items, in their insertion order
ResolveMappings ==
    LET items == [pattern : ResolvePatterns, vendor_id : {V1, V2}]
    IN  {<<>>} \cup {<<i>> : i \in items}
        \cup {q \in items \X items : q[1].pattern # q[2].pattern}

InitResolve ==
    /\ patterns = <<>> /\ extractions = <<>> /\ patterns_cache = <<>>
    /\ pattern_files = <<>> /\ calls = 0 /\ tasks = <<>>
    /\ batch = NoBatch /\ alerts = <<>>
    /\ ret \in {[op |-> "input", name |-> n, vendor_mapping |-> m] :
                   n \in ResolveNames, m \in ResolveMappings}

\* BatchProcessor._get_vendor_id(invoice_path, vendor_mapping)
GetVendorId ==
    /\ ret.op = "input"
    /\ ret' = [ret EXCEPT !.op = "_get_vendor_id"]
              @@ [vendor_id |-> _get_vendor_id(ret.name, ret.vendor_mapping)]
    /\ UNCHANGED <<alerts, batch, patterns, extractions, patterns_cache, pattern_files, calls, tasks>>

NextResolve == GetVendorId

SpecResolve == InitResolve /\ [][NextResolve]_vars

(***************************************************************************)
(* _generate_summary called on one list of results                         *)
(***************************************************************************)
\* per-file results as process_invoice returns them, by the keys the summary
\* reads
SummaryResults ==
    { [validation_status |-> "valid", confidence |-> 70],
      [validation_status |-> "valid", confidence |-> 80],
      [validation_status |-> "valid", confidence |-> 90],
      [validation_status |-> "invalid", confidence |-> 95],
      [validation_status |-> "error", confidence |-> 0] }

MaxResults == 3

InitSummary ==
    /\ patterns = <<>> /\ extractions = <<>> /\ patterns_cache = <<>>
    /\ pattern_files = <<>> /\ calls = 0 /\ tasks = <<>>
    /\ batch = NoBatch /\ alerts = <<>>
    /\ ret \in {[op |-> "input", results |-> r] :
                   r \in UNION {[1..n -> SummaryResults] : n \in 1..MaxResults}}

\* BatchProcessor._generate_summary(results)
GenerateSummary ==
    /\ ret.op = "input"
    /\ ret' = [ret EXCEPT !.op = "_generate_summary"]
              @@ [summary |-> _generate_summary(ret.results)]
    /\ UNCHANGED <<alerts, batch, patterns, extractions, patterns_cache, pattern_files, calls, tasks>>

NextSummary == GenerateSummary

SpecSummary == InitSummary /\ [][NextSummary]_vars

(***************************************************************************)
(* validate_batch_consistency called on one list of extractions            *)
(***************************************************************************)
MaxExtractions == 2

\* extraction dictionaries with the keys the function reads
BatchExtractions ==
    [vendor_id : {V1, <<" ">>}, iban : {IbanGood, IbanBadChecksum},
     account_name : {AccountName, <<"A">>}, confidence_score : {95, 50}]

InitBatchValidation ==
    /\ patterns = <<>> /\ extractions = <<>> /\ patterns_cache = <<>>
    /\ pattern_files = <<>> /\ calls = 0 /\ tasks = <<>>
    /\ batch = NoBatch /\ alerts = <<>>
    /\ ret \in {[op |-> "input", extractions |-> x] :
                   x \in UNION {[1..n -> BatchExtractions] : n \in 0..MaxExtractions}}

\* DataValidator.validate_batch_consistency(extractions)
ValidateBatchConsistency ==
    /\ ret.op = "input"
    /\ ret' = [ret EXCEPT !.op = "validate_batch_consistency"]
              @@ [result |-> validate_batch_consistency(ret.extractions)]
    /\ UNCHANGED <<alerts, batch, patterns, extractions, patterns_cache, pattern_files, calls, tasks>>

NextBatchValidation == ValidateBatchConsistency

SpecBatchValidation == InitBatchValidation /\ [][NextBatchValidation]_vars

(***************************************************************************)
(* Properties of the pattern store (SpecStore)                             *)
(***************************************************************************)
\* no vendor has two persisted patterns with the same hash
NoDuplicateHash ==
    \A i, j \in 1..Len(patterns) :
        (i # j /\ patterns[i].vendor_id = patterns[j].vendor_id)
            => patterns[i].pattern_hash # patterns[j].pattern_hash

\* C1: after any sequence of store_pattern calls made one after the other, no
\* vendor has two persisted patterns with the same hash, and a call whose
\* hash is already persisted for the vendor returns that pattern's id.
C1_StoreIsInsertOrReturnExisting ==
    /\ NoDuplicateHash
    /\ (ret.op = "store" /\ ret.existed # NoId) => ret.pattern_id = ret.existed

\* the persisted rows a returned pattern stands for: the row it was read
\* from, or the vendor's rows with the hash of the cached payload
DenotedRows(tbl, vendor_id, entry) ==
    IF entry.kind = "row" THEN {entry.pattern_id}
    ELSE {i \in VendorPatternIds(tbl, vendor_id) : tbl[i].pattern_hash = entry.pattern_hash}

\* row i is first in (usage count, confidence) among the vendor's rows
IsBest(tbl, vendor_id, i) ==
    \A j \in VendorPatternIds(tbl, vendor_id) :
        \/ tbl[i].usage_count > tbl[j].usage_count
        \/ /\ tbl[i].usage_count = tbl[j].usage_count
           /\ tbl[i].confidence_score >= tbl[j].confidence_score

\* C3: the pattern get_pattern returns is the vendor's persisted pattern with
\* the greatest usage count, ties broken by the greatest confidence, whether
\* it comes from the cache or from the database.
C3_GetReturnsBestPattern ==
    (ret.op = "get" /\ ~ IsNone(ret.pattern))
        => \E i \in DenotedRows(patterns, ret.vendor_id, Get(ret.pattern)) :
              IsBest(patterns, ret.vendor_id, i)

(***************************************************************************)
(* Properties of process_invoice under concurrent callers (SpecPipeline)   *)
(***************************************************************************)
Done == {t \in TaskIds : tasks[t].pc = "done"}

\* C2: when invocations with learning enabled run at the same time for one
\* vendor and one payload, at most one pattern row with that hash is created
\* for the vendor (every query of store_pattern having listed what is
\* persisted, so that only the interleaving is left to create a second row).
C2_ConcurrentLearningCreatesOneRow ==
    (\A t \in TaskIds : ~ tasks[t].scan_missed) => NoDuplicateHash

RECURSIVE SumUsage(_, _)
SumUsage(tbl, vendor_id) ==
    IF tbl = <<>> THEN 0
    ELSE (IF Head(tbl).vendor_id = vendor_id THEN Head(tbl).usage_count ELSE 0)
         + SumUsage(Tail(tbl), vendor_id)

\* invocations that have returned after reusing a stored pattern of the vendor
Reuses(vendor_id) == {t \in Done : tasks[t].reused /\ tasks[t].vendor_id = vendor_id}

\* C10: every reuse of a vendor's stored pattern as the extraction hint
\* increments that pattern's usage count (so the usage counts of a vendor add
\* up to at least the number of its reuses); store_pattern changes no usage
\* count and no pattern is ever deleted.
C10_UsageCountIncrementsOnReuse ==
    /\ [](\A v \in StoreVendors : SumUsage(patterns, v) >= Cardinality(Reuses(v)))
    /\ [][/\ Len(patterns') >= Len(patterns)
          /\ \A i \in 1..Len(patterns) :
                /\ patterns'[i].pattern_id = patterns[i].pattern_id
                /\ patterns'[i].usage_count >= patterns[i].usage_count
                /\ (\E t \in TaskIds : tasks[t].pc \in {"store_scan", "store_insert"}
                                        /\ tasks'[t].pc # tasks[t].pc)
                      => patterns'[i].usage_count = patterns[i].usage_count]_vars

C5_AlwaysTerminalResult ==
    \A t \in TaskIds :
        /\ tasks[t].pc # "done" => ENABLED PipelineStep(t)
        /\ tasks[t].pc # "done" => tasks[t].raised = "" /\ IsNone(tasks[t].result)
        /\ tasks[t].pc = "done" =>
             /\ ~ IsNone(tasks[t].result)
             /\ LET r == Get(tasks[t].result)
                IN  IF tasks[t].raised # ""
                    THEN /\ r.validation_status = "error"
                         /\ Len(r.validation_errors) = 1
                         /\ r.confidence = 0
                         /\ r.has_processing_time
                    ELSE /\ r.validation_status \in {"valid", "invalid"}
                         /\ r.has_processing_time

\* witness of C5: results after a raise in the file check, in the pattern
\* analysis, in the extraction and in the validation are all reachable; here
\* the extraction has raised after a pattern was stored
C5_Witness ==
    \E t \in Done : /\ tasks[t].raised = "extract"
                    /\ tasks[t].stored_pattern_id # NoId
                    /\ Get(tasks[t].result).validation_status = "error"

\* the extraction of task t returned an IBAN that fails validation, and the
\* data validation did not raise
IbanRejected(t) ==
    /\ tasks[t].extract_calls = 1
    /\ tasks[t].raised = ""
    /\ ~ validate(Extracted(tasks[t].invoice.content).iban).is_valid

\* C6: an extracted IBAN that fails validation (empty, format, length or
\* checksum) does not fail the pipeline: iban_valid is false and the IBAN error
\* is recorded, the data validation and the persist step still run, and the
\* result has status invalid, never error.
C6_InvalidIbanIsAnOutcome ==
    \A t \in TaskIds :
        IbanRejected(t) =>
            /\ tasks[t].pc \in {"persist", "done"}
            /\ LET er == Get(tasks[t].extraction_result)
               IN  /\ er.iban_valid = "false"
                   /\ er.iban_error = validate(Extracted(tasks[t].invoice.content).iban).error
                   /\ er.iban_error # ""
                   /\ er.validation_status = "invalid"
                   /\ \E k \in 1..Len(er.validation_errors) :
                         er.validation_errors[k] = "IBAN validation failed"
            /\ tasks[t].pc = "done" =>
                 /\ tasks[t].persist_calls = 1
                 /\ Get(tasks[t].result).validation_status = "invalid"
                 /\ Get(tasks[t].result).iban_valid = "false"
                 /\ Get(tasks[t].result).has_extraction_id

\* witness of C6: an invoice whose IBAN has wrong check digits was persisted
\* and returned as invalid
C6_Witness ==
    \E t \in Done : /\ Extracted(tasks[t].invoice.content).iban = Some(IbanBadChecksum)
                    /\ Get(tasks[t].result).validation_status = "invalid"
                    /\ Get(tasks[t].result).iban_error = "Invalid IBAN: invalid checksum digits"
                    /\ tasks[t].persisted_ids # {}

(***************************************************************************)
(* Properties of one batch call (Spec)                                     *)
(***************************************************************************)
\* the positions in invoice_files of the files whose vendor resolves: a
\* vendor id was found and it is not the empty string
ResolvedPositions ==
    {i \in 1..Len(batch.invoice_files) :
        LET v == _get_vendor_id(batch.invoice_files[i].name, batch.vendor_mapping)
        IN  ~ IsNone(v) /\ Get(v) # <<>>}

HandedPositions == {batch.handed[k] : k \in 1..Len(batch.handed)}

\* the invocations in which some step raised
Raised == {t \in TaskIds : tasks[t].raised # ""}

\* what the result of an invocation says about the invoice when no step of
\* it raises: a function of the document and the vendor id alone
SameAsUndisturbed(t) ==
    LET r == Get(tasks[t].result)
        e == Validated(tasks[t].vendor_id, Extracted(tasks[t].invoice.content))
    IN  /\ r.vendor_id = tasks[t].vendor_id
        /\ r.invoice_filename = tasks[t].invoice.name
        /\ r.iban = e.iban
        /\ r.account_name = e.account_name
        /\ r.confidence = e.confidence
        /\ r.iban_valid = e.iban_valid
        /\ r.validation_status = e.validation_status
        /\ r.validation_errors = e.validation_errors

ErrorResults(results) == WithStatus(results, {"error"})

\* C4: in a production batch of N vendor-resolved files, an invocation that
\* raises never aborts the remaining work: while some invocation has not
\* returned a step of some invocation can be taken, the batch call ends only
\* after all N have returned and were collected, and the summary holds N
\* results.  The result of an invocation has status error exactly when a step
\* of it raised, and the result of every other invocation is what the
\* document yields undisturbed; so when exactly one invocation raised, in the
\* extraction call, exactly one of the N results has status error.  (The
\* comparison is on vendor, file name, IBAN, account name, confidence, IBAN
\* check and validation outcome; the row id and the duration depend on the
\* schedule.)
C4_OneRaiseNeverAbortsBatch ==
    batch.mode = "production" /\ batch.invoice_files # <<>> =>
        /\ Len(tasks) = Cardinality(ResolvedPositions)
        /\ (\E t \in TaskIds : tasks[t].pc # "done") => \E t \in TaskIds : ENABLED PipelineStep(t)
        /\ batch.pc \in {"returned", "raised"} =>
               /\ \A t \in TaskIds : tasks[t].pc = "done"
               /\ batch.collected = TaskIds
        /\ \A t \in batch.collected :
               \E k \in 1..Len(batch.results) : batch.results[k] = Get(tasks[t].result)
        /\ \A t \in TaskIds : tasks[t].pc = "done" =>
               /\ Get(tasks[t].result).validation_status = "error" <=> t \in Raised
               /\ t \notin Raised => SameAsUndisturbed(t)
        /\ batch.pc = "returned" =>
               LET summary == Get(batch.summary)
               IN  /\ summary.total = Cardinality(ResolvedPositions)
                   /\ Len(summary.results) = Cardinality(ResolvedPositions)
                   /\ Len(ErrorResults(summary.results)) = Cardinality(Raised)
                   /\ (\E u \in TaskIds : Raised = {u} /\ tasks[u].raised = "extract") =>
                         /\ Len(ErrorResults(summary.results)) = 1
                         /\ ErrorResults(summary.results)[1].invoice_filename
                              = tasks[CHOOSE u \in Raised : TRUE].invoice.name

\* witness of C4: a production batch of three resolved files has returned;
\* the extraction of exactly one invoice raised, one of the other two results
\* is valid and the other invalid
C4_Witness ==
    /\ batch.mode = "production" /\ batch.pc = "returned"
    /\ Len(tasks) = 3
    /\ \E u \in TaskIds : Raised = {u} /\ tasks[u].raised = "extract"
    /\ Len(WithStatus(Get(batch.summary).results, {"valid"})) = 1
    /\ Len(WithStatus(Get(batch.summary).results, {"invalid"})) = 1

\* C7: a training batch is strictly sequential with learning enabled: every
\* invocation learns, only the invocation made last can be in flight, a new
\* invocation is made only when all earlier ones have returned and a returned
\* invocation takes no further step; the files are listed by ascending name
\* and handed over in that order, and the results are in the same order.
C7_TrainingIsSequentialInSortedOrder ==
    /\ [](batch.mode = "training" =>
            /\ \A t \in TaskIds : tasks[t].learn_pattern
            /\ \A t \in TaskIds : t < Len(tasks) => tasks[t].pc = "done"
            /\ Cardinality({t \in TaskIds : tasks[t].pc # "done"}) <= 1
            /\ \A i, j \in 1..Len(batch.invoice_files) :
                  i < j => StrLess(batch.invoice_files[i].name, batch.invoice_files[j].name)
            /\ Len(batch.handed) = Len(tasks)
            /\ \A k, l \in 1..Len(batch.handed) : k < l => batch.handed[k] < batch.handed[l]
            /\ \A k \in 1..Len(batch.handed) :
                  tasks[k].invoice = batch.invoice_files[batch.handed[k]]
            /\ Len(batch.results) <= Len(tasks)
            /\ \A k \in 1..Len(batch.results) :
                  batch.results[k] = Get(tasks[k].result))
    /\ [][batch.mode = "training" =>
            /\ Len(tasks') > Len(tasks) => \A t \in TaskIds : tasks[t].pc = "done"
            /\ \A t \in TaskIds : tasks[t].pc = "done" => tasks'[t] = tasks[t]
            /\ (patterns' # patterns \/ extractions' # extractions
                \/ patterns_cache' # patterns_cache)
                  => tasks'[Len(tasks)] # tasks[Len(tasks)]]_vars

\* witness of C7: a training batch has returned the results of M.pdf,
\* v1_a.pdf and v1_b.pdf, in this order, and _x.pdf was skipped
C7_Witness ==
    /\ batch.mode = "training" /\ batch.pc = "returned"
    /\ Len(batch.invoice_files) = 4
    /\ Len(batch.results) = 3
    /\ batch.results[1].invoice_filename = FileM.name
    /\ batch.results[2].invoice_filename = FileA.name
    /\ batch.results[3].invoice_filename = FileB.name

\* C8: in one batch call every discovered file whose vendor resolves is
\* handed to process_invoice exactly once, with that vendor id, and
\* contributes exactly one result; a file whose vendor does not resolve is
\* never handed over; no invocation calls a collaborator twice; and the total
\* of the summary is the number of files whose vendor resolves.
C8_EachResolvedFileProcessedOnce ==
    batch.mode # "none" =>
        /\ Len(batch.handed) = Len(tasks)
        /\ HandedPositions \subseteq ResolvedPositions
        /\ \A k, l \in 1..Len(batch.handed) : k # l => batch.handed[k] # batch.handed[l]
        /\ \A k \in 1..Len(batch.handed) :
              /\ tasks[k].invoice = batch.invoice_files[batch.handed[k]]
              /\ Some(tasks[k].vendor_id)
                   = _get_vendor_id(tasks[k].invoice.name, batch.vendor_mapping)
        /\ \A t \in TaskIds :
              /\ tasks[t].analyze_calls <= 1 /\ tasks[t].extract_calls <= 1
              /\ tasks[t].store_calls <= 1 /\ tasks[t].persist_calls <= 1
        /\ batch.mode = "training" =>
              HandedPositions = {i \in ResolvedPositions :
                                    \/ i < batch.next
                                    \/ i = batch.next /\ batch.pc = "calling"}
        /\ batch.mode = "production" => HandedPositions = ResolvedPositions
        /\ Len(batch.results) = Cardinality(batch.collected)
        /\ \A i \in 1..Len(batch.invoice_files) :
              Cardinality({k \in 1..Len(batch.results) :
                              batch.results[k].invoice_filename = batch.invoice_files[i].name})
                = IF \E t \in batch.collected : batch.handed[t] = i THEN 1 ELSE 0
        /\ (batch.pc = "returned" /\ batch.invoice_files # <<>>) =>
              /\ HandedPositions = ResolvedPositions
              /\ batch.collected = TaskIds
              /\ Get(batch.summary).total = Cardinality(ResolvedPositions)

\* witness of C8: a batch call has returned a summary of two results for a
\* directory of four invoice files, one of them without a vendor id in its
\* name and one mapped to the empty vendor id
C8_Witness ==
    /\ batch.pc = "returned"
    /\ Len(batch.invoice_files) = 4
    /\ Cardinality(ResolvedPositions) = 2
    /\ Get(batch.summary).total = 2
    /\ \E i \in 1..4 : _get_vendor_id(batch.invoice_files[i].name, batch.vendor_mapping)
                          = Some(<<>>)
    /\ \E i \in 1..4 : IsNone(_get_vendor_id(batch.invoice_files[i].name,
                                              batch.vendor_mapping))

\* C11: when a batch call has returned, every invoice it persisted whose IBAN
\* differs from an IBAN recorded earlier for the same vendor has a drift
\* alert recorded for that vendor.
C11_DriftAlertRecorded ==
    batch.pc = "returned" =>
        \A t \in TaskIds :
            LET r == Get(tasks[t].result)
            IN  (/\ r.extraction_id # NoId
                 /\ \E i \in 1..(r.extraction_id - 1) :
                       /\ extractions[i].vendor_id = tasks[t].vendor_id
                       /\ extractions[i].iban # r.iban)
                => \E a \in 1..Len(alerts) : alerts[a].vendor_id = tasks[t].vendor_id

\* C12: an invocation with learning not requested never persists a pattern:
\* a step changes the table of patterns (its rows or their fields) only if it
\* is the insert of store_pattern in an invocation that learns, and such an
\* invocation never writes the pattern backup file either; so during a whole
\* production batch, whose invocations all have learning disabled, the
\* persisted patterns stay as they were.
C12_NoLearningNoPatternWrite ==
    /\ [](batch.mode = "production" => \A t \in TaskIds : ~ tasks[t].learn_pattern)
    /\ [][/\ patterns' # patterns =>
                \E t \in TaskIds : /\ tasks[t].learn_pattern
                                   /\ tasks[t].pc = "store_insert"
                                   /\ tasks'[t] # tasks[t]
          /\ \A t \in TaskIds :
                (~ tasks[t].learn_pattern /\ tasks'[t] # tasks[t]) =>
                    /\ patterns' = patterns
                    /\ pattern_files' = pattern_files
                    /\ tasks'[t].store_calls = 0
          /\ batch.mode = "production" => patterns' = patterns]_vars

\* witness of C12: a production batch on a database with one persisted
\* pattern has returned; an invocation found no pattern for its vendor, had
\* the layout analysed and returned a valid result, and the table still holds
\* that one pattern
C12_Witness ==
    /\ batch.mode = "production" /\ batch.pc = "returned"
    /\ patterns = TrainedPatterns
    /\ \E t \in TaskIds : /\ tasks[t].analyze_calls = 1
                          /\ Get(tasks[t].result).validation_status = "valid"
    /\ \E t \in TaskIds : tasks[t].reused

\* the invocation is blocked in a call of the AI collaborator (pattern
\* analysis or extraction)
InAiCall(t) == tasks[t].pc \in {"analyze", "extract"}

\* C13: an invocation that is blocked in an AI call holds no open database
\* connection: every connection is opened and closed inside one persistence
\* operation, so an invocation holds none between its steps.
C13_NoConnectionAcrossAiCall ==
    \A t \in TaskIds :
        /\ InAiCall(t) => tasks[t].connections = 0
        /\ tasks[t].connections = 0

\* witness of C13: a learning invocation that has queried and inserted its
\* pattern is blocked in the extraction call while another invocation has
\* already persisted its extraction
C13_Witness ==
    \E t, u \in TaskIds :
        /\ tasks[t].pc = "extract"
        /\ tasks[t].stored_pattern_id # NoId
        /\ tasks[u].pc = "done"
        /\ tasks[u].persisted_ids # {}

\* C14: when the invoice directory does not exist or holds no file of a
\* supported format, a training or production batch call returns, without
\* raising, a summary with success = false and a message; it makes no
\* invocation of process_invoice and no call to the CSV generator.
C14_NoFilesIsStructuredFailure ==
    (/\ batch.mode # "none"
     /\ \/ IsNone(batch.directory)
        \/ \A f \in Get(batch.directory) :
              \A format_ext \in SUPPORTED_FORMATS : f \notin Glob({f}, format_ext))
    => /\ batch.pc = "returned"
       /\ ~ IsNone(batch.summary)
       /\ Get(batch.summary).success = FALSE
       /\ "message" \in DOMAIN Get(batch.summary)
       /\ "results" \notin DOMAIN Get(batch.summary)
       /\ tasks = <<>>
       /\ batch.results = <<>>
       /\ batch.export_calls = 0

\* witness of C14: a production batch call on a directory that exists and
\* holds only a .txt file has returned
C14_Witness ==
    /\ batch.mode = "production"
    /\ batch.directory = Some({FileN})
    /\ batch.pc = "returned"

\* C15: when a production batch has returned, the CSV generator was handed
\* exactly the results with status valid, each once and in the order of the
\* results (and was not called at all when there is none), and the
\* validation report was handed the full list of results.
C15_ExportIsExactlyTheValidResults ==
    (batch.mode = "production" /\ batch.pc = "returned" /\ batch.invoice_files # <<>>) =>
        LET summary == Get(batch.summary)
            results == batch.results
            valid == {k \in 1..Len(results) : results[k].validation_status = "valid"}
        IN  /\ summary.validation_report = results
            /\ \A t \in TaskIds :
                  \E k \in 1..Len(summary.validation_report) :
                     summary.validation_report[k] = Get(tasks[t].result)
            /\ valid = {} <=> "csv_output" \notin DOMAIN summary
            /\ valid # {} =>
                  /\ Len(summary.csv_output) = Cardinality(valid)
                  /\ \A j \in 1..Len(summary.csv_output) :
                        summary.csv_output[j].validation_status = "valid"
                  /\ \A k \in valid :
                        \E j \in 1..Len(summary.csv_output) : summary.csv_output[j] = results[k]
                  /\ \A i, j \in 1..Len(summary.csv_output) :
                        i < j => \E k, l \in valid : /\ k < l
                                                     /\ results[k] = summary.csv_output[i]
                                                     /\ results[l] = summary.csv_output[j]

\* witness of C15: a production batch has returned one valid, one invalid and
\* one error result
C15_Witness ==
    /\ batch.mode = "production" /\ batch.pc = "returned"
    /\ Len(batch.results) = 3
    /\ \E i, j, k \in 1..3 : /\ batch.results[i].validation_status = "valid"
                             /\ batch.results[j].validation_status = "invalid"
                             /\ batch.results[k].validation_status = "error"
    /\ Len(Get(batch.summary).csv_output) = 1

(***************************************************************************)
(* Properties of the IBAN validator (SpecIban)                             *)
(***************************************************************************)
\* the kind of failure an error message of validate tells
ErrorKind(result) ==
    IF result.is_valid THEN "none"
    ELSE IF result.error = "IBAN is empty" THEN "Empty"
    ELSE IF result.error = "Invalid IBAN format" THEN "FormatInvalid"
    ELSE IF result.error = "Invalid IBAN length" THEN "LengthInvalid"
    ELSE "ChecksumInvalid"

\* C16: validate reports the first failing check on the input with its
\* whitespace removed and its letters in upper case: Empty when nothing
\* remains (also for an input of whitespace only), else FormatInvalid when it
\* is not two letters, two digits and an alphanumeric tail, else LengthInvalid
\* when its length is outside 15..34, else ChecksumInvalid or success; a
\* failure has no normalized form.
C16_FirstFailingCheckIsReported ==
    ret.op = "validate" =>
        LET x == Upper(RemoveWhitespace(ret.input))
            kind == ErrorKind(ret.result)
        IN  /\ IF x = <<>> THEN kind = "Empty"
               ELSE IF ~ MatchesIbanFormat(x) THEN kind = "FormatInvalid"
               ELSE IF Len(x) < IbanMinLen \/ Len(x) > IbanMaxLen THEN kind = "LengthInvalid"
               ELSE kind \in {"ChecksumInvalid", "none"}
            /\ ~ ret.result.is_valid => IsNone(ret.result.formatted)

\* C17: for an input that passes the empty, format and length checks,
\* validate succeeds exactly when the ISO 13616 number of the input (first
\* four characters moved to the end, A=10 .. Z=35) is 1 modulo 97; a country
\* prefix outside the allow-list does not by itself cause rejection.
C17_ValidIffMod97IsOne ==
    ret.op = "validate" =>
        LET x == Upper(RemoveWhitespace(ret.input))
        IN  (/\ x # <<>>
             /\ MatchesIbanFormat(x)
             /\ Len(x) >= IbanMinLen /\ Len(x) <= IbanMaxLen)
            => /\ ret.result.is_valid <=> Mod97(x) = 1
               /\ ~ ret.result.is_valid => ErrorKind(ret.result) = "ChecksumInvalid"

\* C18: for every input and every group size, format does not raise and
\* validate gives the formatted input the same validity and the same
\* normalized form as it gives the input itself; the normalized form of a
\* valid IBAN holds no whitespace.
C18_FormatNeverChangesValidation ==
    ret.op = "format" =>
        /\ ~ ret.raised
        /\ ret.result.is_valid = validate(Some(ret.input)).is_valid
        /\ ret.result.formatted = validate(Some(ret.input)).formatted
        /\ ret.result.is_valid =>
              \A i \in 1..Len(Get(ret.result.formatted)) :
                  Get(ret.result.formatted)[i] \notin WhitespaceChars

(***************************************************************************)
(* Properties of the data validator (SpecValidation)                       *)
(***************************************************************************)
\* the number of TRUE values in a sequence of booleans
RECURSIVE CountTrue(_)
CountTrue(bs) == IF bs = <<>> THEN 0 ELSE (IF Head(bs) THEN 1 ELSE 0) + CountTrue(Tail(bs))

VendorRuleHolds == Strip(ret.vendor_id) # <<>>
IbanRuleHolds == validate(ret.iban).is_valid
HasAlnum(name) == \E i \in 1..Len(name) : IsAlnum(name[i])

\* C19 as claimed: validate_extraction returns is_valid exactly when the
\* vendor id is not blank, the IBAN passes validation, the account name has
\* length >= 2 and an alphanumeric character, and the confidence is at least
\* the minimum threshold; the error list has one entry per failing rule.
C19_ValidIffFourRules ==
    ret.op = "validate_extraction" =>
        LET rules == << VendorRuleHolds,
                        IbanRuleHolds,
                        /\ ~ IsNone(ret.account_name)
                        /\ Len(Get(ret.account_name)) >= 2
                        /\ HasAlnum(Get(ret.account_name)),
                        ret.confidence_score >= MIN_CONFIDENCE_THRESHOLD >>
        IN  /\ ret.result.is_valid <=> CountTrue(rules) = 4
            /\ ret.result.is_valid <=> ret.result.errors = <<>>
            /\ Len(ret.result.errors) = 4 - CountTrue(rules)

\* C19 (amended): validate_extraction returns is_valid exactly when the vendor
\* id is not blank, the IBAN passes validation, the account name without its
\* surrounding whitespace has length >= 2 and the name holds an alphanumeric
\* character, and the confidence lies between the minimum threshold and 1.0,
\* both included; the error list is empty exactly when is_valid is true and
\* holds one entry per failing rule, in the order of the rules.
C19_ValidIffFourRulesOnStrippedName ==
    ret.op = "validate_extraction" =>
        LET rules == << VendorRuleHolds,
                        IbanRuleHolds,
                        /\ ~ IsNone(ret.account_name)
                        /\ Len(Strip(Get(ret.account_name))) >= 2
                        /\ HasAlnum(Get(ret.account_name)),
                        /\ ret.confidence_score >= MIN_CONFIDENCE_THRESHOLD
                        /\ ret.confidence_score <= 100 >>
            messages == << "Vendor ID is empty", "IBAN validation failed",
                           "Account name is invalid or empty",
                           "Confidence score is below threshold" >>
            failing == SelectSeq(<<1, 2, 3, 4>>, LAMBDA k : ~ rules[k])
        IN  /\ ret.result.is_valid <=> CountTrue(rules) = 4
            /\ ret.result.is_valid <=> ret.result.errors = <<>>
            /\ ret.result.errors = [k \in 1..Len(failing) |-> messages[failing[k]]]

\* witness of C19: a call with a good vendor id and IBAN, an account name of
\* one letter and a space, and a confidence above 1.0 has returned two errors
C19_Witness ==
    /\ ret.op = "validate_extraction"
    /\ ret.vendor_id = V1 /\ ret.iban = Some(IbanGood)
    /\ ret.account_name = Some(<<"A", " ">>)
    /\ ret.confidence_score = 101
    /\ Len(ret.result.errors) = 2

\* C20: get_confidence_level is high for a score at or above the maximum
\* threshold, medium for a score at or above the minimum threshold and below
\* the maximum, and low otherwise; with thresholds 0.70 and 0.90 the scores
\* 0.95, 0.80 and 0.50 are high, medium and low.
C20_ConfidenceLevelBuckets ==
    ret.op = "get_confidence_level" =>
        /\ ret.level = "high" <=> ret.confidence_score >= MAX_CONFIDENCE_THRESHOLD
        /\ ret.level = "medium" <=> /\ ret.confidence_score >= MIN_CONFIDENCE_THRESHOLD
                                    /\ ret.confidence_score < MAX_CONFIDENCE_THRESHOLD
        /\ ret.level = "low" <=> ret.confidence_score < MIN_CONFIDENCE_THRESHOLD
        /\ ret.level \in {"high", "medium", "low"}
        /\ ret.confidence_score = 95 => ret.level = "high"
        /\ ret.confidence_score = 80 => ret.level = "medium"
        /\ ret.confidence_score = 50 => ret.level = "low"
        /\ ret.confidence_score = 90 => ret.level = "high"
        /\ ret.confidence_score = 70 => ret.level = "medium"

\* witness of C20: the level of the score 0.90, the boundary of the upper
\* bucket, was computed
C20_Witness ==
    /\ ret.op = "get_confidence_level"
    /\ ret.confidence_score = MAX_CONFIDENCE_THRESHOLD
    /\ ret.level = "high"

(***************************************************************************)
(* Properties of validate_pattern_change (SpecChange)                      *)
(***************************************************************************)
\* the severity the inputs call for: none without a previous IBAN or when the
\* IBANs are equal ignoring case and spaces, critical when the country
\* prefixes differ, warning when only the rest differs
ExpectedSeverity(new_iban, previous_iban) ==
    IF IsNone(previous_iban) \/ Get(previous_iban) = <<>> THEN "none"
    ELSE LET n == Upper(RemoveSpaces(new_iban))
             q == Upper(RemoveSpaces(Get(previous_iban)))
         IN  IF n = q THEN "none"
             ELSE IF SubSeq(n, 1, 2) # SubSeq(q, 1, 2) THEN "critical"
             ELSE "warning"

\* C21: validate_pattern_change gives no alert without a previous IBAN or for
\* equal IBANs, and otherwise an alert whose returned outcome carries the
\* severity: critical when the country prefixes differ, warning when they
\* are the same.
C21_OutcomeCarriesSeverity ==
    ret.op = "validate_pattern_change" =>
        LET expected == ExpectedSeverity(ret.new_iban, ret.previous_iban)
        IN  /\ ret.returned.should_alert <=> expected # "none"
            /\ ret.returned.should_alert =>
                  /\ "severity" \in DOMAIN ret.returned
                  /\ ret.returned.severity = expected

(***************************************************************************)
(* Properties of _get_vendor_id (SpecResolve)                              *)
(***************************************************************************)
\* the values of the mapping keys that occur in the file name, letter case
\* aside
SubstringValues(name, m) ==
    {Some(m[k].vendor_id) : k \in {i \in 1..Len(m) : Contains(Lower(name), Lower(m[i].pattern))}}

\* C22: vendor resolution follows a strict precedence: the value of the key
\* that is the file name, even when another key is a substring of the name;
\* otherwise the value of a key that is a substring; otherwise the leading
\* underscore-delimited token if it is alphanumeric; otherwise unresolved.
C22_ResolutionPrecedence ==
    ret.op = "_get_vendor_id" =>
        LET m == ret.vendor_mapping
            exact == {k \in 1..Len(m) : m[k].pattern = ret.name}
            token == FirstPart(Stem(ret.name))
        IN  IF exact # {} THEN \A k \in exact : ret.vendor_id = Some(m[k].vendor_id)
            ELSE IF SubstringValues(ret.name, m) # {}
            THEN ret.vendor_id \in SubstringValues(ret.name, m)
            ELSE IF isalnum(token) THEN ret.vendor_id = Some(token)
            ELSE ret.vendor_id = None

(***************************************************************************)
(* Properties of the batch summary (Spec)                                  *)
(***************************************************************************)
\* a batch call has returned the summary of a non-empty list of results
SummaryReturned ==
    /\ batch.pc = "returned"
    /\ ~ IsNone(batch.summary)
    /\ "results" \in DOMAIN Get(batch.summary)
    /\ Get(batch.summary).results # <<>>

\* the positions of the results with one of these statuses
StatusCount(results, statuses) ==
    Cardinality({k \in 1..Len(results) : results[k].validation_status \in statuses})

\* C23 as stated: for a non-empty list of results the success rate of the
\* summary equals successful divided by total, a value between 0 and 1.
C23_SuccessRateIsFraction ==
    SummaryReturned =>
        LET summary == Get(batch.summary)
            rate == summary.success_rate
        IN  /\ summary.total = Len(summary.results)
            /\ summary.successful = StatusCount(summary.results, {"valid"})
            /\ rate.den > 0
            /\ rate.num * summary.total = summary.successful * rate.den
            /\ 0 <= rate.num /\ rate.num <= rate.den

\* C23 amended: for a non-empty list of results the success rate of the
\* summary equals 100 times successful divided by total, a percentage
\* between 0 and 100.
C23_SuccessRateIsPercentage ==
    SummaryReturned =>
        LET summary == Get(batch.summary)
            rate == summary.success_rate
        IN  /\ summary.total = Len(summary.results)
            /\ summary.successful = StatusCount(summary.results, {"valid"})
            /\ rate.den > 0
            /\ rate.num * summary.total = 100 * summary.successful * rate.den
            /\ 0 <= rate.num /\ rate.num <= 100 * rate.den

\* witness of C23: a batch has returned the summary of results of which some
\* but not all are valid
C23_Witness ==
    /\ SummaryReturned
    /\ Get(batch.summary).successful > 0
    /\ Get(batch.summary).successful < Get(batch.summary).total

\* C24: the confidence distribution of the summary agrees with
\* get_confidence_level: the count under high, medium and low is the number
\* of counted (valid) results whose level is that bucket, so that each
\* counted result is counted in exactly one bucket.
C24_DistributionAgreesWithLevels ==
    SummaryReturned =>
        LET summary == Get(batch.summary)
            results == summary.results
            counted == {k \in 1..Len(results) : results[k].validation_status = "valid"}
            Level(b) == {k \in counted : get_confidence_level(results[k].confidence) = b}
            distribution == summary.confidence_distribution
        IN  /\ distribution.high = Cardinality(Level("high"))
            /\ distribution.medium = Cardinality(Level("medium"))
            /\ distribution.low = Cardinality(Level("low"))
            /\ distribution.high + distribution.medium + distribution.low
                  = Cardinality(counted)

\* witness of C24: a batch has returned a summary that counts one result
\* under high and one under medium, next to a result that is not counted
C24_Witness ==
    /\ SummaryReturned
    /\ Get(batch.summary).confidence_distribution.high = 1
    /\ Get(batch.summary).confidence_distribution.medium = 1
    /\ Get(batch.summary).total = 3

(***************************************************************************)
(* Properties of _generate_summary (SpecSummary)                           *)
(***************************************************************************)
\* the aggregate statistics of a summary
Statistics(summary) ==
    [total |-> summary.total, successful |-> summary.successful,
     failed |-> summary.failed, success_rate |-> summary.success_rate,
     average_confidence |-> summary.average_confidence,
     confidence_distribution |-> summary.confidence_distribution]

\* the same per-file results in every order in which they can complete
CompletionOrders(results) ==
    {[i \in 1..Len(results) |-> results[p[i]]] : p \in Permutations(1..Len(results))}

\* C25: the aggregate statistics of a batch (total, successful, failed,
\* success rate, average, confidence distribution) do not depend on the order
\* in which the workers complete: every completion order of the same per-file
\* results gives the same summary values.
C25_StatisticsIgnoreCompletionOrder ==
    ret.op = "_generate_summary" =>
        \A other \in CompletionOrders(ret.results) :
            Statistics(_generate_summary(other)) = Statistics(ret.summary)

(***************************************************************************)
(* Properties of the stored confidence (SpecInvoice)                       *)
(***************************************************************************)
\* C26: every confidence score stored on a persisted pattern or a persisted
\* extraction lies in [0,1], whatever confidence the AI reported.
C26_StoredConfidenceInUnitInterval ==
    /\ \A i \in 1..Len(patterns) :
          0 <= patterns[i].confidence_score /\ patterns[i].confidence_score <= 100
    /\ \A i \in 1..Len(extractions) :
          0 <= extractions[i].confidence_score /\ extractions[i].confidence_score <= 100

(***************************************************************************)
(* Properties of the parsing of the AI response (SpecInvoice)              *)
(***************************************************************************)
\* the invocation has returned, its document is given by the text of the
\* AI's response, and the call of the AI for the extraction returned
ParsedResponse(t) ==
    /\ tasks[t].pc = "done"
    /\ "response" \in DOMAIN tasks[t].invoice.content
    /\ tasks[t].extract_calls = 1
    /\ Get(tasks[t].result).validation_errors # <<"extraction failed">>

\* the pieces from the first opening brace to the last closing brace, the
\* empty sequence when there is no such part
Payload(response) ==
    LET first == FirstIndex(response, "{")
        last == LastIndex(response, "}")
    IN  IF first # 0 /\ last > first THEN SubSeq(response, first, last) ELSE <<>>

\* C27: the structured payload of an AI response is taken from the first
\* opening brace to the last closing brace, whatever prose surrounds it; when
\* there is no such payload or it does not parse, the parse step returns the
\* result with null iban and account name and confidence 0 instead of
\* raising, and the invocation ends with status invalid, not error.
C27_ParseFailureIsInvalidNotError ==
    \A t \in TaskIds :
        ParsedResponse(t) =>
            LET payload == Payload(tasks[t].invoice.content.response)
                result == Get(tasks[t].result)
            IN  IF payload = <<"{", "M", "}">>
                THEN /\ result.iban = Some(IbanGood)
                     /\ result.account_name = Some(AccountName)
                     /\ result.confidence = 95
                     /\ result.validation_status # "error"
                ELSE IF payload = <<"{", "}">>
                THEN result.validation_status = "invalid"
                ELSE /\ result.iban = None
                     /\ result.account_name = None
                     /\ result.confidence = 0
                     /\ result.validation_status = "invalid"

\* witness of C27: an invocation has returned status invalid for a response
\* that holds braces with prose between them, which does not parse
C27_Witness ==
    \E t \in TaskIds :
        /\ ParsedResponse(t)
        /\ Payload(tasks[t].invoice.content.response) = <<"{", "p", "}">>
        /\ Len(tasks[t].invoice.content.response) = 4
        /\ Get(tasks[t].result).validation_status = "invalid"

(***************************************************************************)
(* Properties of the pattern backup file (SpecPipeline)                    *)
(***************************************************************************)
\* the invocation is inside store_pattern or about to write the backup file
Storing(t) == tasks[t].pc \in {"store_scan", "store_insert"}

\* the step of invocation t returns from store_pattern with this pattern id,
\* leaves these persisted patterns, and goes on to the extraction
StoreOutcome(t, pattern_id, table) ==
    /\ PipelineStep(t)
    /\ tasks'[t].pc = "extract"
    /\ tasks'[t].raised = ""
    /\ tasks'[t].stored_pattern_id = pattern_id
    /\ patterns' = table

\* C28: a failure to write the backup copy of a pattern payload never fails
\* the store operation or the invoice: every outcome of the store (pattern id
\* returned, persisted patterns) that is possible when the backup is written
\* is possible when the write fails, and the other way round, and an
\* invocation that stored a pattern always goes on to its extraction, so its
\* status does not depend on the backup.
C28_BackupFailureChangesNothing ==
    \A t \in TaskIds :
        /\ Storing(t) =>
              LET tk == tasks[t]
                  pattern_data == Get(tk.pattern_data)
                  inserted == store_pattern_insert(patterns, patterns_cache, tk.vendor_id,
                                                   pattern_data, pattern_data.confidence,
                                                   TRUE).table
              IN  \A pattern_id \in 0..(Len(patterns) + 1), table \in {patterns, inserted} :
                     (ENABLED (/\ StoreOutcome(t, pattern_id, table)
                               /\ pattern_files' = SavedFiles(pattern_files, tk.vendor_id,
                                                              pattern_data, TRUE)))
                     <=> (ENABLED (/\ StoreOutcome(t, pattern_id, table)
                                   /\ pattern_files' = pattern_files))
        /\ (tasks[t].pc = "done" /\ tasks[t].store_calls > 0) => tasks[t].extract_calls = 1

\* witness of C28: an invocation has stored a new pattern, the write of its
\* backup file failed, and it has returned a valid result
C28_Witness ==
    \E t \in TaskIds :
        /\ tasks[t].pc = "done"
        /\ tasks[t].stored_pattern_id # NoId
        /\ Len(patterns) = 1
        /\ pattern_files = <<>>
        /\ Get(tasks[t].result).validation_status = "valid"

(***************************************************************************)
(* Properties of validate_batch_consistency (SpecBatchValidation)          *)
(***************************************************************************)
\* what validate_extraction says of the fields of an extraction
Verdict(e) == validate_extraction(e.vendor_id, Some(e.iban), Some(e.account_name), e.confidence_score)

\* an extraction without the error list it was given
WithoutErrors(e) == [k \in DOMAIN e \ {"validation_errors"} |-> e[k]]

\* C29: validate_batch_consistency partitions its input: every extraction is
\* in exactly one of the valid and the invalid list, in the valid list
\* exactly when validate_extraction accepts its fields, and the members of
\* the invalid list carry their error list.
C29_BatchIsPartitioned ==
    ret.op = "validate_batch_consistency" =>
        LET input == ret.extractions
            valid == ret.result.valid
            invalid == ret.result.invalid
        IN  /\ valid = SelectSeq(input, LAMBDA e : Verdict(e).is_valid)
            /\ [i \in 1..Len(invalid) |-> WithoutErrors(invalid[i])]
                  = SelectSeq(input, LAMBDA e : ~ Verdict(e).is_valid)
            /\ Len(valid) + Len(invalid) = Len(input)
            /\ \A i \in 1..Len(invalid) :
                  /\ "validation_errors" \in DOMAIN invalid[i]
                  /\ invalid[i].validation_errors = Verdict(WithoutErrors(invalid[i])).errors
                  /\ invalid[i].validation_errors # <<>>

\* witness of C29: a list of one extraction that validates and one that does
\* not has been split into a valid and an invalid member
C29_Witness ==
    /\ ret.op = "validate_batch_consistency"
    /\ Len(ret.extractions) = 2
    /\ Len(ret.result.valid) = 1
    /\ Len(ret.result.invalid) = 1

(***************************************************************************)
(* Properties of the exported files (Spec)                                 *)
(***************************************************************************)
\* the name the validation report writes for a confidence level
ReportLevel(level) ==
    IF level = "high" THEN "HIGH" ELSE IF level = "medium" THEN "MEDIUM" ELSE "LOW"

\* C30: when a production batch has returned, the CSV file holds for every
\* valid result a row with that result's vendor id, IBAN, account name and
\* confidence, and the row of the validation report for every result carries
\* the level get_confidence_level gives that result's confidence.
C30_ExportedRowsCarryTheResults ==
    (batch.mode = "production" /\ batch.pc = "returned" /\ batch.invoice_files # <<>>) =>
        LET results == batch.results
        IN  /\ \A k \in 1..Len(results) :
                  results[k].validation_status = "valid" =>
                     \E j \in 1..Len(batch.csv_rows) :
                        /\ batch.csv_rows[j].vendor_id = results[k].vendor_id
                        /\ batch.csv_rows[j].iban = results[k].iban
                        /\ batch.csv_rows[j].account_name = results[k].account_name
                        /\ batch.csv_rows[j].confidence_score = results[k].confidence
            /\ Len(batch.report_rows) = Len(results)
            /\ \A k \in 1..Len(results) :
                  batch.report_rows[k].confidence_level
                     = ReportLevel(get_confidence_level(results[k].confidence))

(***************************************************************************)
(* Properties of the steps of one invocation (SpecPipeline, SpecInvoice)   *)
(***************************************************************************)
\* get_pattern has returned to invocation t
PatternLookedUp(t) == tasks[t].pc # "queued" /\ tasks[t].raised # "file"

\* line 60: the invocation has the layout analysed
NeedsAnalysis(t) == tasks[t].learn_pattern \/ IsNone(tasks[t].existing_pattern)

TooLarge(t) == tasks[t].invoice.size_mb > MAX_FILE_SIZE_MB
FileRejected(t) == TooLarge(t) \/ Extension(tasks[t].invoice.name) \notin SUPPORTED_FORMATS

\* C32: an invocation whose file fails the file checks (size above
\* MAX_FILE_SIZE_MB, or extension outside SUPPORTED_FORMATS) returns status
\* error at its first step, with the message of the first failing check: it
\* calls neither AI collaborator, neither get_pattern nor store_pattern, and
\* persists nothing, so the tables, the cache and the backup files are as
\* before the call.
C32_RejectedFileTouchesNothing ==
    \A t \in TaskIds :
        FileRejected(t) =>
            LET tk == tasks[t]
            IN  /\ tk.pc \in {"queued", "done"}
                /\ tk.analyze_calls = 0 /\ tk.extract_calls = 0
                /\ tk.get_pattern_calls = 0 /\ tk.store_calls = 0
                /\ tk.persist_calls = 0 /\ tk.persisted_ids = {}
                /\ tk.connections = 0
                /\ patterns = <<>> /\ extractions = <<>>
                /\ patterns_cache = <<>> /\ pattern_files = <<>>
                /\ tk.pc = "done" =>
                      /\ tk.raised = "file"
                      /\ Get(tk.result).validation_status = "error"
                      /\ ~ Get(tk.result).has_extraction_id
                      /\ Get(tk.result).validation_errors =
                            IF TooLarge(t)
                            THEN <<"File size exceeds limit">>
                            ELSE <<"Unsupported file type">>

\* witness of C32: a file of a supported format but above the size limit was
\* rejected
C32_Witness ==
    \E t \in Done :
        /\ TooLarge(t)
        /\ Extension(tasks[t].invoice.name) \in SUPPORTED_FORMATS
        /\ Get(tasks[t].result).validation_status = "error"

\* C33: a result returned with status valid or invalid carries the id of the
\* extraction row written for it (same vendor, file name, IBAN, account name
\* and confidence); when the insert fails the result is not valid or invalid.
C33_ValidOrInvalidResultIsPersisted ==
    \A t \in Done :
        LET r == Get(tasks[t].result)
        IN  r.validation_status \in {"valid", "invalid"} =>
              /\ r.has_extraction_id
              /\ r.extraction_id # NoId
              /\ tasks[t].persisted_ids = {r.extraction_id}
              /\ r.extraction_id \in 1..Len(extractions)
              /\ LET row == extractions[r.extraction_id]
                 IN  /\ row.extraction_id = r.extraction_id
                     /\ row.vendor_id = r.vendor_id
                     /\ row.invoice_filename = r.invoice_filename
                     /\ row.iban = r.iban
                     /\ row.account_name = r.account_name
                     /\ row.confidence_score = r.confidence

\* C34: a result returned with status valid has iban_valid true, an IBAN that
\* is the extracted one in upper case without whitespace, a vendor id that is
\* not blank, an account name that passes the account-name rule, a confidence
\* of at least MIN_CONFIDENCE_THRESHOLD, and an empty error list.
C34_ValidResultSatisfiesEveryRule ==
    \A t \in Done :
        LET r == Get(tasks[t].result)
            extracted == Extracted(tasks[t].invoice.content)
        IN  r.validation_status = "valid" =>
              /\ r.iban_valid = "true"
              /\ ~ IsNone(extracted.iban)
              /\ r.iban = Some(Upper(RemoveWhitespace(Get(extracted.iban))))
              /\ \A i \in 1..Len(Get(r.iban)) :
                    IsUpper(Get(r.iban)[i]) \/ IsDigit(Get(r.iban)[i])
              /\ Strip(r.vendor_id) # <<>>
              /\ validate_account_name(r.account_name)
              /\ r.confidence >= MIN_CONFIDENCE_THRESHOLD
              /\ r.validation_errors = <<>>

\* witness of C34: an extracted IBAN that holds a tab was returned valid
\* without it
C34_Witness ==
    \E t \in Done :
        /\ Extracted(tasks[t].invoice.content).iban = Some(IbanTabbed)
        /\ Get(tasks[t].result).validation_status = "valid"
        /\ Get(tasks[t].result).iban = Some(IbanGood)

(***************************************************************************)
(* Properties of the pattern a reused hint refers to (SpecPipeline)        *)
(***************************************************************************)
\* C35: when an invocation without learning was handed a pattern by
\* get_pattern and persisted its extraction, the extraction row records the
\* id of a persisted pattern of the invocation's vendor, whether the pattern
\* came from the cache entry of an earlier store_pattern or from the table.
C35_ReusedPatternIsRecorded ==
    \A t \in Done :
        (tasks[t].reused /\ tasks[t].persisted_ids # {}) =>
            \A i \in tasks[t].persisted_ids :
                /\ extractions[i].pattern_id # NoId
                /\ extractions[i].pattern_id \in 1..Len(patterns)
                /\ patterns[extractions[i].pattern_id].vendor_id = tasks[t].vendor_id

(***************************************************************************)
(* Properties of the counts of the batch summary (Spec)                    *)
(***************************************************************************)
\* C36: in the summary a batch returns, successful + failed = total: every
\* collected result has status valid, invalid or error, the valid ones are
\* counted as successful and the others as failed, each once.
C36_SuccessfulPlusFailedIsTotal ==
    SummaryReturned =>
        LET summary == Get(batch.summary)
            results == summary.results
        IN  /\ \A k \in 1..Len(results) :
                  results[k].validation_status \in {"valid", "invalid", "error"}
            /\ summary.failed = StatusCount(results, {"invalid", "error"})
            /\ summary.successful + summary.failed = summary.total
            /\ summary.total = Cardinality(batch.collected)

\* witness of C36: a batch has returned a summary whose results hold a valid,
\* an invalid and an error result
C36_Witness ==
    /\ SummaryReturned
    /\ \A st \in {"valid", "invalid", "error"} :
          \E k \in 1..Len(Get(batch.summary).results) :
             Get(batch.summary).results[k].validation_status = st

\* C37: the confidence distribution of a batch summary counts valid results
\* only, and a valid result has a confidence of at least
\* MIN_CONFIDENCE_THRESHOLD: high + medium = successful, low = 0, and no
\* invalid or error result is counted, whatever its confidence.
C37_NoLowBucketInPipelineSummary ==
    SummaryReturned =>
        LET summary == Get(batch.summary)
            results == summary.results
            distribution == summary.confidence_distribution
            valid == {k \in 1..Len(results) : results[k].validation_status = "valid"}
        IN  /\ distribution.high + distribution.medium = summary.successful
            /\ distribution.low = 0
            /\ \A k \in valid : results[k].confidence >= MIN_CONFIDENCE_THRESHOLD
            /\ distribution.high =
                  Cardinality({k \in valid : results[k].confidence >= MAX_CONFIDENCE_THRESHOLD})
            /\ distribution.medium =
                  Cardinality({k \in valid : results[k].confidence < MAX_CONFIDENCE_THRESHOLD})

\* witness of C37: a batch has returned a summary with a valid result in the
\* high bucket, and an invalid result whose confidence is below
\* MIN_CONFIDENCE_THRESHOLD in none
C37_Witness ==
    /\ SummaryReturned
    /\ Get(batch.summary).confidence_distribution.high = 1
    /\ Get(batch.summary).confidence_distribution.low = 0
    /\ \E k \in 1..Len(Get(batch.summary).results) :
          /\ Get(batch.summary).results[k].validation_status = "invalid"
          /\ Get(batch.summary).results[k].confidence < MIN_CONFIDENCE_THRESHOLD

(***************************************************************************)
(* Termination of a production batch (SpecLive)                            *)
(***************************************************************************)
\* process_production_batch has submitted its invocations
Submitting == batch.mode = "production" /\ batch.pc = "collect"

\* process_production_batch has returned a summary of the results of all the
\* invocations it submitted, each collected once
SummaryOfAll ==
    /\ batch.mode = "production" /\ batch.pc = "returned"
    /\ ~ IsNone(batch.summary)
    /\ "results" \in DOMAIN Get(batch.summary)
    /\ batch.collected = 1..Len(batch.handed)
    /\ Len(batch.results) = Len(batch.handed)
    /\ Get(batch.summary).results = batch.results
    /\ \A t \in batch.collected :
          \E k \in 1..Len(batch.results) : batch.results[k] = Get(tasks[t].result)

\* C38: when every call the workers make returns or raises, a production
\* batch that has submitted its invocations eventually returns a summary in
\* which the result of every submitted invoice is collected exactly once.
C38_ProductionBatchReturnsSummary == Submitting ~> SummaryOfAll

\* the same, for the batches whose CSV file and validation report are written
\* without an error
ReturnsSummaryUnlessExportRaises ==
    [](batch.pc # "raised") => (Submitting ~> SummaryOfAll)

====
